---- MODULE Spec2Model ----
(***************************************************************************)
(* wal2http: logical replication client.                                   *)
(*                                                                         *)
(* The module models                                                       *)
(*   - the big-endian codec (utils/binary.rs, buffer.rs),                  *)
(*   - the wire frames (protocol/messages.rs),                             *)
(*   - the pgoutput decoder (parser.rs),                                   *)
(*   - the replication state (protocol/messages.rs, types.rs),             *)
(*   - the sinks (events/sink/stdout.rs, event_sink/http.rs,               *)
(*     event_sink/hook0.rs),                                               *)
(*   - the replication session of replication/server.rs  (Spec), and       *)
(*   - the replication session of server.rs              (SpecLegacy).     *)
(*                                                                         *)
(* Offsets are 0-based as in the source; a TLA+ sequence is 1-based, so    *)
(* the byte at source offset o of buffer b is b[o + 1].                    *)
(***************************************************************************)
EXTENDS Integers, Sequences, FiniteSets, TLC

(***************************************************************************)
(* Bounds of the model.                                                    *)
(***************************************************************************)
\* number of get_copy_data calls of one session
MaxRecv == 2
\* number of seconds the clock advances
MaxTime == 2
\* highest position update_lsn and update_applied_lsn are called with
MaxLsn == 4

(***************************************************************************)
(* Results: Ok(v), Err(e), and a panic (assertion failure, slice index     *)
(* out of range, arithmetic overflow, explicit panic!).                    *)
(***************************************************************************)
Ok(v) == [res |-> "Ok", val |-> v]

Err(e) == [res |-> "Err", val |-> e]

Panic(e) == [res |-> "Panic", val |-> e]

IsOk(r) == r.res = "Ok"

IsErr(r) == r.res = "Err"

IsPanic(r) == r.res = "Panic"

\* the ? operator: apply op to the value of an Ok result, pass an error on
Then(r, op(_)) == IF IsOk(r) THEN op(r.val) ELSE r

\* match r { Ok(v) => ok(v), other => fail(other) }
Match(r, ok(_), fail(_)) == IF IsOk(r) THEN ok(r.val) ELSE fail(r)

(***************************************************************************)
(* Binary codec.                                                           *)
(***************************************************************************)
Min(a, b) == IF a < b THEN a ELSE b

Max(a, b) == IF a > b THEN a ELSE b

\* &buffer[offset..]
Slice(buffer, offset) == SubSeq(buffer, offset + 1, Len(buffer))

\* &buffer[from..to]
Range(buffer, from, to) == SubSeq(buffer, from + 1, to)

At(buffer, offset) == buffer[offset + 1]

RECURSIVE to_be_bytes(_, _)
\* val.to_be_bytes() for a width of n bytes: most significant byte first
to_be_bytes(val, n) ==
    IF n = 0 THEN << >>
    ELSE Append(to_be_bytes(val \div 256, n - 1), val % 256)

RECURSIVE from_be_bytes(_)
\* uN::from_be_bytes
from_be_bytes(bytes) ==
    IF bytes = << >> THEN 0
    ELSE from_be_bytes(SubSeq(bytes, 1, Len(bytes) - 1)) * 256 + bytes[Len(bytes)]

\* iN::from_be_bytes: two's complement, computed from the complemented bytes
\* so that values near zero stay small
from_be_bytes_signed(bytes) ==
    IF bytes[1] >= 128
    THEN -(from_be_bytes([i \in 1..Len(bytes) |-> 255 - bytes[i]]) + 1)
    ELSE from_be_bytes(bytes)

\* iN::to_be_bytes: two's complement
to_be_bytes_signed(val, n) ==
    IF val >= 0 THEN to_be_bytes(val, n)
    ELSE [i \in 1..n |-> 255 - to_be_bytes(-(val + 1), n)[i]]

buf_send_u64(val) == to_be_bytes(val, 8)

\* mutant: the sign of the value is dropped
buf_send_i64_magnitude(val) == to_be_bytes(IF val < 0 THEN -val ELSE val, 8)

buf_send_i64(val) == to_be_bytes_signed(val, 8)

buf_send_u32(val) == to_be_bytes(val, 4)

buf_send_i32(val) == to_be_bytes_signed(val, 4)

buf_send_u16(val) == to_be_bytes(val, 2)

buf_send_i16(val) == to_be_bytes_signed(val, 2)

\* the buf_recv_* functions assert!(buf.len() >= N); RecvOk is that assertion
RecvOk(buf, n) == Len(buf) >= n

buf_recv_u64(buf) == from_be_bytes(SubSeq(buf, 1, 8))

buf_recv_i64(buf) == from_be_bytes_signed(SubSeq(buf, 1, 8))

buf_recv_u32(buf) == from_be_bytes(SubSeq(buf, 1, 4))

buf_recv_i32(buf) == from_be_bytes_signed(SubSeq(buf, 1, 4))

buf_recv_u16(buf) == from_be_bytes(SubSeq(buf, 1, 2))

buf_recv_i16(buf) == from_be_bytes_signed(SubSeq(buf, 1, 2))

buf_recv_i8(buf) == from_be_bytes_signed(SubSeq(buf, 1, 1))

\* String::from_utf8_lossy on the bytes the model uses: an ASCII byte is
\* kept, a byte that cannot start a character becomes U+FFFD
from_utf8_lossy(bytes) ==
    [i \in 1..Len(bytes) |-> IF bytes[i] < 128 THEN bytes[i] ELSE 65533]

(***************************************************************************)
(* Byte values of the tag and marker characters of the protocol.           *)
(***************************************************************************)
Ch == [B |-> 66, C |-> 67, R |-> 82, I |-> 73, U |-> 85, D |-> 68, T |-> 84,
       S |-> 83, E |-> 69, c |-> 99, A |-> 65, N |-> 78, K |-> 75, O |-> 79,
       n |-> 110, u |-> 117, t |-> 116, k |-> 107, w |-> 119, r |-> 114,
       d |-> 100, X |-> 88]

(***************************************************************************)
(* pgoutput decoder (parser.rs).                                           *)
(***************************************************************************)
RECURSIVE ScanNul(_, _)
\* while offset < buffer.len() && buffer[offset] != 0 { offset += 1; }
ScanNul(buffer, offset) ==
    IF offset < Len(buffer) /\ At(buffer, offset) # 0
    THEN ScanNul(buffer, offset + 1)
    ELSE offset

parse_begin_message(buffer) ==
    IF Len(buffer) < 21 THEN Err("Begin message too short")
    ELSE Ok([kind |-> "Begin",
             final_lsn |-> buf_recv_u64(Slice(buffer, 1)),
             timestamp |-> buf_recv_i64(Slice(buffer, 9)),
             xid |-> buf_recv_u32(Slice(buffer, 17))])

parse_commit_message(buffer) ==
    IF Len(buffer) < 26 THEN Err("Commit message too short")
    ELSE Ok([kind |-> "Commit",
             flags |-> At(buffer, 1),
             commit_lsn |-> buf_recv_u64(Slice(buffer, 2)),
             end_lsn |-> buf_recv_u64(Slice(buffer, 10)),
             timestamp |-> buf_recv_i64(Slice(buffer, 18))])

RECURSIVE ParseColumns(_, _, _, _)
\* the column loop of parse_relation_message: count columns left to read
ParseColumns(buffer, offset, count, columns) ==
    IF count <= 0 THEN Ok([columns |-> columns, offset |-> offset])
    ELSE IF offset >= Len(buffer) THEN Err("Column data truncated")
    ELSE LET key_flag == buf_recv_i8(Slice(buffer, offset))
             name_start == offset + 1
             name_end == ScanNul(buffer, name_start)
         IN  IF name_end >= Len(buffer) THEN Err("Invalid column name")
             ELSE IF name_end + 1 + 8 > Len(buffer) THEN Err("Column data truncated")
             ELSE ParseColumns(buffer, name_end + 1 + 8, count - 1,
                      Append(columns,
                          [key_flag |-> key_flag,
                           column_name |-> from_utf8_lossy(Range(buffer, name_start, name_end)),
                           column_type |-> buf_recv_u32(Slice(buffer, name_end + 1)),
                           atttypmod |-> buf_recv_i32(Slice(buffer, name_end + 5))]))

parse_relation_message(buffer) ==
    IF Len(buffer) < 7 THEN Err("Relation message too short")
    ELSE LET oid == buf_recv_u32(Slice(buffer, 1))
             ns_end == ScanNul(buffer, 5)
             rn_start == ns_end + 1
             rn_end == ScanNul(buffer, rn_start)
             ri_off == rn_end + 1
         IN  IF ns_end >= Len(buffer) THEN Err("Invalid namespace in relation message")
             ELSE IF rn_end >= Len(buffer) THEN Err("Invalid relation name in relation message")
             ELSE IF ri_off >= Len(buffer) THEN Err("Relation message truncated")
             ELSE IF ri_off + 1 + 2 > Len(buffer) THEN Err("Relation message truncated")
             ELSE LET column_count == buf_recv_i16(Slice(buffer, ri_off + 1))
                  IN  Then(ParseColumns(buffer, ri_off + 3, column_count, << >>),
                           LAMBDA cols :
                             Ok([kind |-> "Relation",
                                 relation |->
                                   [oid |-> oid,
                                    namespace |-> from_utf8_lossy(Range(buffer, 5, ns_end)),
                                    relation_name |-> from_utf8_lossy(Range(buffer, rn_start, rn_end)),
                                    replica_identity |-> At(buffer, ri_off),
                                    column_count |-> column_count,
                                    columns |-> cols.columns]]))

RECURSIVE TupleColumns(_, _, _, _)
\* the column loop of parse_tuple_data
TupleColumns(buffer, offset, count, columns) ==
    IF count <= 0 THEN Ok([columns |-> columns, offset |-> offset])
    ELSE IF offset >= Len(buffer) THEN Err("Tuple data truncated")
    ELSE LET data_type == At(buffer, offset)
             o1 == offset + 1
         IN  IF data_type = Ch.n \/ data_type = Ch.u
             THEN TupleColumns(buffer, o1, count - 1,
                      Append(columns, [data_type |-> data_type, length |-> 0, data |-> << >>]))
             ELSE IF data_type = Ch.t
             THEN IF o1 + 4 > Len(buffer) THEN Err("Text data length truncated")
                  ELSE LET text_len == buf_recv_i32(Slice(buffer, o1))
                           o2 == o1 + 4
                       IN  \* offset + text_len as usize > buffer.len(): a negative
                           \* text_len is a huge usize; with -text_len <= offset the
                           \* sum overflows (debug build) or wraps below offset and
                           \* the slice start exceeds its end (release build)
                           IF text_len < 0
                           THEN IF -text_len <= o2 THEN Panic("text_len as usize")
                                ELSE Err("Text data truncated")
                           ELSE IF o2 + text_len > Len(buffer) THEN Err("Text data truncated")
                           ELSE TupleColumns(buffer, o2 + text_len, count - 1,
                                    Append(columns,
                                        [data_type |-> Ch.t, length |-> text_len,
                                         data |-> from_utf8_lossy(Range(buffer, o2, o2 + text_len))]))
             ELSE Err("Unknown tuple data type")

\* parse_tuple_data counting the bytes of the columns without the two bytes
\* of the column count
parse_tuple_data_columns_only(buffer) ==
    IF Len(buffer) < 2 THEN Err("Tuple data too short")
    ELSE Then(TupleColumns(buffer, 2, buf_recv_i16(buffer), << >>),
              LAMBDA cols :
                Ok([column_count |-> buf_recv_i16(buffer),
                    columns |-> cols.columns,
                    processed_length |-> cols.offset - 2]))

parse_tuple_data(buffer) ==
    IF Len(buffer) < 2 THEN Err("Tuple data too short")
    ELSE Then(TupleColumns(buffer, 2, buf_recv_i16(buffer), << >>),
              LAMBDA cols :
                Ok([column_count |-> buf_recv_i16(buffer),
                    columns |-> cols.columns,
                    processed_length |-> cols.offset]))

NoXid == [some |-> FALSE, xid |-> 0]

SomeXid(x) == [some |-> TRUE, xid |-> x]

NoTuple == [some |-> FALSE, tuple |-> << >>]

NoKey == [some |-> FALSE, key |-> 0]

parse_insert_message(buffer) ==
    IF Len(buffer) < 6 THEN Err("Insert message too short")
    ELSE LET transaction_id_or_oid == buf_recv_u32(Slice(buffer, 1))
             plain == At(buffer, 5) = Ch.N
             offset == IF plain THEN 5 ELSE 9
         IN  IF ~plain /\ ~RecvOk(Slice(buffer, 5), 4) THEN Panic("buf_recv_u32")
             ELSE IF offset >= Len(buffer) \/ At(buffer, offset) # Ch.N
             THEN Err("Expected 'N' marker in insert message")
             ELSE Then(parse_tuple_data(Slice(buffer, offset + 1)),
                       LAMBDA tuple_data :
                         Ok([kind |-> "Insert",
                             relation_id |-> IF plain THEN transaction_id_or_oid
                                             ELSE buf_recv_u32(Slice(buffer, 5)),
                             tuple_data |-> tuple_data,
                             is_stream |-> ~plain,
                             xid |-> IF plain THEN NoXid
                                     ELSE SomeXid(transaction_id_or_oid)]))

parse_update_message(buffer) ==
    IF Len(buffer) < 6 THEN Err("Update message too short")
    ELSE LET transaction_id_or_oid == buf_recv_u32(Slice(buffer, 1))
             plain == At(buffer, 5) \in {Ch.K, Ch.O, Ch.N}
             offset == IF plain THEN 5 ELSE 9
         IN  IF ~plain /\ ~RecvOk(Slice(buffer, 5), 4) THEN Panic("buf_recv_u32")
             ELSE IF offset >= Len(buffer) THEN Err("Update message truncated")
             ELSE LET marker == At(buffer, offset)
                      o1 == offset + 1
                      relation_id == IF plain THEN transaction_id_or_oid
                                     ELSE buf_recv_u32(Slice(buffer, 5))
                      xid == IF plain THEN NoXid ELSE SomeXid(transaction_id_or_oid)
                  IN  IF marker \in {Ch.K, Ch.O}
                      THEN Then(parse_tuple_data(Slice(buffer, o1)),
                                LAMBDA old :
                                  IF o1 + old.processed_length >= Len(buffer)
                                     \/ At(buffer, o1 + old.processed_length) # Ch.N
                                  THEN Err("Expected 'N' marker after old tuple data")
                                  ELSE Then(parse_tuple_data(
                                                Slice(buffer, o1 + old.processed_length + 1)),
                                            LAMBDA new :
                                              Ok([kind |-> "Update",
                                                  relation_id |-> relation_id,
                                                  key_type |-> [some |-> TRUE, key |-> marker],
                                                  old_tuple_data |-> [some |-> TRUE, tuple |-> old],
                                                  new_tuple_data |-> new,
                                                  is_stream |-> ~plain,
                                                  xid |-> xid])))
                      ELSE IF marker = Ch.N
                      THEN Then(parse_tuple_data(Slice(buffer, o1)),
                                LAMBDA new :
                                  Ok([kind |-> "Update",
                                      relation_id |-> relation_id,
                                      key_type |-> NoKey,
                                      old_tuple_data |-> NoTuple,
                                      new_tuple_data |-> new,
                                      is_stream |-> ~plain,
                                      xid |-> xid]))
                      ELSE Err("Invalid marker in update message")

parse_delete_message(buffer) ==
    IF Len(buffer) < 6 THEN Err("Delete message too short")
    ELSE LET transaction_id_or_oid == buf_recv_u32(Slice(buffer, 1))
             plain == At(buffer, 5) \in {Ch.K, Ch.O}
             key_off == IF plain THEN 5 ELSE 9
         IN  IF ~plain /\ ~RecvOk(Slice(buffer, 5), 4) THEN Panic("buf_recv_u32")
             ELSE IF ~plain /\ key_off >= Len(buffer) THEN Err("Delete message truncated")
             ELSE Then(parse_tuple_data(Slice(buffer, key_off + 1)),
                       LAMBDA tuple_data :
                         Ok([kind |-> "Delete",
                             relation_id |-> IF plain THEN transaction_id_or_oid
                                             ELSE buf_recv_u32(Slice(buffer, 5)),
                             key_type |-> At(buffer, key_off),
                             tuple_data |-> tuple_data,
                             is_stream |-> ~plain,
                             xid |-> IF plain THEN NoXid
                                     ELSE SomeXid(transaction_id_or_oid)]))

RECURSIVE TruncateIds(_, _, _, _)
\* the relation id loop of parse_truncate_message
TruncateIds(buffer, offset, count, ids) ==
    IF count <= 0 THEN Ok(ids)
    ELSE IF offset + 4 > Len(buffer) THEN Err("Truncate relation IDs truncated")
    ELSE TruncateIds(buffer, offset + 4, count - 1,
             Append(ids, buf_recv_u32(Slice(buffer, offset))))

parse_truncate_message(buffer) ==
    IF Len(buffer) < 10 THEN Err("Truncate message too short")
    ELSE LET xid_or_num_relations == buf_recv_u32(Slice(buffer, 1))
             possible_relation_num == buf_recv_u32(Slice(buffer, 5))
             remaining == Len(buffer) - 9
             expected_size == 1 + possible_relation_num * 4
             is_stream == remaining = expected_size
             offset == IF is_stream THEN 9 ELSE 5
             num_relations == IF is_stream THEN possible_relation_num
                              ELSE xid_or_num_relations
         IN  IF offset >= Len(buffer) THEN Err("Truncate message truncated")
             ELSE Then(TruncateIds(buffer, offset + 1, num_relations, << >>),
                       LAMBDA ids :
                         Ok([kind |-> "Truncate",
                             relation_ids |-> ids,
                             flags |-> buf_recv_i8(Slice(buffer, offset)),
                             is_stream |-> is_stream,
                             xid |-> IF is_stream THEN SomeXid(xid_or_num_relations)
                                     ELSE NoXid]))

parse_stream_start_message(buffer) ==
    IF Len(buffer) < 6 THEN Err("Stream start message too short")
    ELSE Ok([kind |-> "StreamStart",
             xid |-> buf_recv_u32(Slice(buffer, 1)),
             first_segment |-> (5 < Len(buffer) /\ At(buffer, 5) = 1)])

parse_stream_stop_message(buffer) == Ok([kind |-> "StreamStop"])

parse_stream_commit_message(buffer) ==
    IF Len(buffer) < 26 THEN Err("Stream commit message too short")
    ELSE IF ~RecvOk(Slice(buffer, 22), 8) THEN Panic("buf_recv_i64")
    ELSE Ok([kind |-> "StreamCommit",
             xid |-> buf_recv_u32(Slice(buffer, 1)),
             flags |-> At(buffer, 5),
             commit_lsn |-> buf_recv_u64(Slice(buffer, 6)),
             end_lsn |-> buf_recv_u64(Slice(buffer, 14)),
             timestamp |-> buf_recv_i64(Slice(buffer, 22))])

parse_stream_abort_message(buffer) ==
    IF Len(buffer) < 9 THEN Err("Stream abort message too short")
    ELSE Ok([kind |-> "StreamAbort",
             xid |-> buf_recv_u32(Slice(buffer, 1)),
             subtransaction_xid |-> buf_recv_u32(Slice(buffer, 5))])

parse_wal_message(buffer) ==
    IF buffer = << >> THEN Err("Empty message buffer")
    ELSE CASE buffer[1] = Ch.B -> parse_begin_message(buffer)
           [] buffer[1] = Ch.C -> parse_commit_message(buffer)
           [] buffer[1] = Ch.R -> parse_relation_message(buffer)
           [] buffer[1] = Ch.I -> parse_insert_message(buffer)
           [] buffer[1] = Ch.U -> parse_update_message(buffer)
           [] buffer[1] = Ch.D -> parse_delete_message(buffer)
           [] buffer[1] = Ch.T -> parse_truncate_message(buffer)
           [] buffer[1] = Ch.S -> parse_stream_start_message(buffer)
           [] buffer[1] = Ch.E -> parse_stream_stop_message(buffer)
           [] buffer[1] = Ch.c -> parse_stream_commit_message(buffer)
           [] buffer[1] = Ch.A -> parse_stream_abort_message(buffer)
           [] OTHER -> Err("Unknown message type")

(***************************************************************************)
(* BufferWriter (buffer.rs): a fixed buffer and a write position.          *)
(***************************************************************************)
BufferWriter_new(buffer) == [buffer |-> buffer, position |-> 0]

remaining(writer) ==
    IF writer.position < Len(writer.buffer)
    THEN Len(writer.buffer) - writer.position
    ELSE 0

has_space(writer, count) == remaining(writer) >= count

\* buffer[position .. position + len(bytes)] = bytes; position += len(bytes)
Put(writer, bytes) ==
    [buffer |-> [i \in 1..Len(writer.buffer) |->
                    IF i > writer.position /\ i <= writer.position + Len(bytes)
                    THEN bytes[i - writer.position]
                    ELSE writer.buffer[i]],
     position |-> writer.position + Len(bytes)]

write_u8(writer, value) ==
    IF ~has_space(writer, 1) THEN Err("Not enough space for u8")
    ELSE Ok(Put(writer, <<value>>))

write_u64(writer, value) ==
    IF ~has_space(writer, 8) THEN Err("Not enough space for u64")
    ELSE Ok(Put(writer, buf_send_u64(value)))

write_i64(writer, value) ==
    IF ~has_space(writer, 8) THEN Err("Not enough space for i64")
    ELSE Ok(Put(writer, buf_send_i64(value)))

write_u32(writer, value) ==
    IF ~has_space(writer, 4) THEN Err("Not enough space for u32")
    ELSE Ok(Put(writer, buf_send_u32(value)))

write_i32(writer, value) ==
    IF ~has_space(writer, 4) THEN Err("Not enough space for i32")
    ELSE Ok(Put(writer, buf_send_i32(value)))

\* value is the sequence of the bytes of the string
write_length_prefixed_string(writer, value) ==
    IF ~has_space(writer, 4 + Len(value))
    THEN Err("Not enough space for length-prefixed string")
    ELSE Then(write_i32(writer, Len(value)),
              LAMBDA written : Ok(Put(written, value)))

write_bytes(writer, bytes) ==
    IF ~has_space(writer, Len(bytes)) THEN Err("Not enough space for bytes")
    ELSE Ok(Put(writer, bytes))

(***************************************************************************)
(* BufferReader (buffer.rs): a buffer and a read position.  A read takes   *)
(* &mut self: its outcome is the Result together with the reader as the    *)
(* call left it.                                                           *)
(***************************************************************************)
BufferReader_new(buffer) == [buffer |-> buffer, position |-> 0]

BufferReader_remaining(reader) ==
    IF reader.position < Len(reader.buffer)
    THEN Len(reader.buffer) - reader.position
    ELSE 0

has_bytes(reader, count) == BufferReader_remaining(reader) >= count

\* Ok(value), the position moved on by count
ReadOk(reader, value, count) ==
    [res |-> "Ok", val |-> value,
     reader |-> [reader EXCEPT !.position = @ + count]]

\* Err(ReplicationError::parse(e)), the reader as it is
ReadErr(reader, e) == [res |-> "Err", val |-> e, reader |-> reader]

\* &self.buffer[self.position..]
Rest(reader) == Slice(reader.buffer, reader.position)

read_u8(reader) ==
    IF ~has_bytes(reader, 1) THEN ReadErr(reader, "Not enough bytes for u8")
    ELSE ReadOk(reader, At(reader.buffer, reader.position), 1)

read_i16(reader) ==
    IF ~has_bytes(reader, 2) THEN ReadErr(reader, "Not enough bytes for i16")
    ELSE ReadOk(reader, buf_recv_i16(Rest(reader)), 2)

read_u32(reader) ==
    IF ~has_bytes(reader, 4) THEN ReadErr(reader, "Not enough bytes for u32")
    ELSE ReadOk(reader, buf_recv_u32(Rest(reader)), 4)

read_i32(reader) ==
    IF ~has_bytes(reader, 4) THEN ReadErr(reader, "Not enough bytes for i32")
    ELSE ReadOk(reader, buf_recv_i32(Rest(reader)), 4)

read_u64(reader) ==
    IF ~has_bytes(reader, 8) THEN ReadErr(reader, "Not enough bytes for u64")
    ELSE ReadOk(reader, buf_recv_u64(Rest(reader)), 8)

read_i64(reader) ==
    IF ~has_bytes(reader, 8) THEN ReadErr(reader, "Not enough bytes for i64")
    ELSE ReadOk(reader, buf_recv_i64(Rest(reader)), 8)

\* the loop moves self.position itself, before the terminator is known to
\* exist
read_null_terminated_string(reader) ==
    LET start_pos == reader.position
        scanned == [reader EXCEPT
                       !.position = ScanNul(reader.buffer, reader.position)]
    IN  IF scanned.position >= Len(scanned.buffer)
        THEN ReadErr(scanned, "String not null-terminated")
        ELSE ReadOk(scanned,
                    from_utf8_lossy(Range(scanned.buffer, start_pos,
                                          scanned.position)),
                    1)

\* let length = self.read_i32()?; the checks that follow work on the reader
\* read_i32 has moved
read_length_prefixed_string(reader) ==
    LET length == read_i32(reader)
    IN  IF ~IsOk(length) THEN length
        ELSE IF length.val < 0
        THEN ReadErr(length.reader, "Negative string length")
        ELSE IF ~has_bytes(length.reader, length.val)
        THEN ReadErr(length.reader, "String data truncated")
        ELSE ReadOk(length.reader,
                    from_utf8_lossy(Range(length.reader.buffer,
                                          length.reader.position,
                                          length.reader.position + length.val)),
                    length.val)

read_length_prefixed_bytes(reader) ==
    LET length == read_i32(reader)
    IN  IF ~IsOk(length) THEN length
        ELSE IF length.val < 0
        THEN ReadErr(length.reader, "Negative byte array length")
        ELSE IF ~has_bytes(length.reader, length.val)
        THEN ReadErr(length.reader, "Byte array data truncated")
        ELSE ReadOk(length.reader,
                    Range(length.reader.buffer, length.reader.position,
                          length.reader.position + length.val),
                    length.val)

bytes_written(writer) == writer.position


(***************************************************************************)
(* Timestamps (utils/timestamp.rs).  A SystemTime is a number of whole     *)
(* seconds since the Unix epoch.                                           *)
(***************************************************************************)
PG_EPOCH_OFFSET_SECS == 946684800

MICROS_PER_SEC == 1000000

\* unix_secs * 1_000_000 - PG_EPOCH_OFFSET_SECS * 1_000_000, with the
\* subtraction done before the multiplication to keep the numbers small
system_time_to_postgres_timestamp(time) ==
    (time - PG_EPOCH_OFFSET_SECS) * MICROS_PER_SEC

(***************************************************************************)
(* Wire frames (protocol/messages.rs).                                     *)
(***************************************************************************)
KEEPALIVE_LEN == 18

XLOGDATA_HEADER_LEN == 25

FEEDBACK_LEN == 34

\* KeepaliveMessage::try_from(BufferReader)
KeepaliveMessage_try_from(data) ==
    IF Len(data) < KEEPALIVE_LEN THEN Err("Keepalive message too short")
    ELSE Ok([log_pos |-> buf_recv_u64(Slice(data, 1)),
             timestamp |-> buf_recv_u64(Slice(data, 9)),
             reply_requested |-> At(data, 17) # 0])

\* mutant: data_start is taken from the wal_end field
XLogDataMessage_try_from_wal_end(data) ==
    IF Len(data) < XLOGDATA_HEADER_LEN THEN Err("WAL message too short")
    ELSE Ok([data_start |-> buf_recv_u64(Slice(data, 9)),
             wal_end |-> buf_recv_u64(Slice(data, 9)),
             send_time |-> buf_recv_u64(Slice(data, 17)),
             data |-> Slice(data, 25)])

\* XLogDataMessage::try_from(BufferReader)
XLogDataMessage_try_from(data) ==
    IF Len(data) < XLOGDATA_HEADER_LEN THEN Err("WAL message too short")
    ELSE Ok([data_start |-> buf_recv_u64(Slice(data, 1)),
             wal_end |-> buf_recv_u64(Slice(data, 9)),
             send_time |-> buf_recv_u64(Slice(data, 17)),
             data |-> Slice(data, 25)])

(***************************************************************************)
(* ReplicationState (protocol/messages.rs, types.rs).                      *)
(***************************************************************************)
\* mutant: the position of the last frame, not the highest
update_lsn_latest(current, lsn) ==
    IF lsn > 0 THEN lsn ELSE current

\* the new value of received_lsn
update_lsn(current, lsn) ==
    IF lsn > 0 THEN Max(current, lsn) ELSE current

\* mutant: the position given, not the highest
update_applied_lsn_latest(current, lsn) ==
    IF lsn > 0 THEN lsn ELSE current

\* mutant: applied_lsn is left as it is
update_applied_lsn_kept(current, lsn) == current

\* the new value of applied_lsn
update_applied_lsn(current, lsn) ==
    IF lsn > 0 THEN Max(current, lsn) ELSE current

\* mutant: an entry that exists is kept
add_relation_keeping(rels, relation) ==
    [oid \in DOMAIN rels \cup {relation.oid} |->
        IF oid \in DOMAIN rels THEN rels[oid] ELSE relation]

\* relations.insert(relation.oid, relation)
add_relation(rels, relation) ==
    [oid \in DOMAIN rels \cup {relation.oid} |->
        IF oid = relation.oid THEN relation ELSE rels[oid]]

\* Option<&RelationInfo>
NoRelation == [some |-> FALSE]

SomeRelation(relation) == [some |-> TRUE, relation |-> relation]

\* relations.get(&oid)
get_relation(rels, oid) ==
    IF oid \in DOMAIN rels THEN SomeRelation(rels[oid]) ELSE NoRelation

(***************************************************************************)
(* The standby status update of send_feedback: the 34-byte reply_buf, or   *)
(* the error of the writer.                                                *)
(***************************************************************************)
\* mutant: the timestamp is written before the apply position
FeedbackBuf_reordered(received, applied, time) ==
    LET timestamp == system_time_to_postgres_timestamp(time)
        reply_buf == [i \in 1..FEEDBACK_LEN |-> 0]
        w0 == Ok(BufferWriter_new(reply_buf))
        w1 == Then(w0, LAMBDA w : write_u8(w, Ch.r))
        w2 == Then(w1, LAMBDA w : write_u64(w, received))
        w3 == Then(w2, LAMBDA w : write_u64(w, received))
        w4 == Then(w3, LAMBDA w : write_i64(w, timestamp))
        w5 == Then(w4, LAMBDA w : write_u64(w, applied))
        w6 == Then(w5, LAMBDA w : write_u8(w, 0))
    IN  Then(w6, LAMBDA w : IF bytes_written(w) # Len(reply_buf)
                            THEN Err("Failed to write feedback data")
                            ELSE Ok(w.buffer))

FeedbackBuf(received, applied, time) ==
    LET timestamp == system_time_to_postgres_timestamp(time)
        reply_buf == [i \in 1..FEEDBACK_LEN |-> 0]
        w0 == Ok(BufferWriter_new(reply_buf))
        w1 == Then(w0, LAMBDA w : write_u8(w, Ch.r))
        w2 == Then(w1, LAMBDA w : write_u64(w, received))
        w3 == Then(w2, LAMBDA w : write_u64(w, received))
        w4 == Then(w3, LAMBDA w : write_u64(w, applied))
        w5 == Then(w4, LAMBDA w : write_i64(w, timestamp))
        w6 == Then(w5, LAMBDA w : write_u8(w, 0))
    IN  Then(w6, LAMBDA w : IF bytes_written(w) # Len(reply_buf)
                            THEN Err("Failed to write feedback data")
                            ELSE Ok(w.buffer))

(***************************************************************************)
(* What the server sends: the chunks PQgetCopyData can return.             *)
(***************************************************************************)
\* positions in the WAL of the Insert: none and 0x1040
Lsns == {0, 4096 + 64}

\* a primary keepalive message
KeepaliveFrame(log_pos, reply) ==
    <<Ch.k>> \o buf_send_u64(log_pos) \o buf_send_u64(0) \o <<reply>>

\* an XLogData message carrying payload
XLogDataFrame(data_start, payload) ==
    <<Ch.w>> \o buf_send_u64(data_start) \o buf_send_u64(data_start + 16)
             \o buf_send_u64(0) \o payload

TableOid == 12345

\* Relation p.t (replica identity default) with one key column e of type text
RelationPayload ==
    <<Ch.R>> \o buf_send_u32(TableOid) \o <<112, 0>> \o <<116, 0>> \o <<Ch.d>>
             \o buf_send_i16(1)
             \o <<1, 101, 0>> \o buf_send_u32(25) \o buf_send_i32(-1)

\* Insert into p.t of the row ('1')
InsertPayload ==
    <<Ch.I>> \o buf_send_u32(TableOid) \o <<Ch.N>> \o buf_send_i16(1)
             \o <<Ch.t>> \o buf_send_i32(1) \o <<49>>

BeginPayload(final_lsn) ==
    <<Ch.B>> \o buf_send_u64(final_lsn) \o buf_send_i64(0) \o buf_send_u32(7)

CommitPayload(commit_lsn, end_lsn) ==
    <<Ch.C, 0>> \o buf_send_u64(commit_lsn) \o buf_send_u64(end_lsn)
                \o buf_send_i64(0)

\* a payload with a tag the decoder does not know
BadPayload == <<Ch.X>>

\* an XLogData message cut inside its header
ShortXLogData == <<Ch.w, 0, 0>>

\* a keepalive cut before its reply flag
ShortKeepalive == SubSeq(KeepaliveFrame(0, 0), 1, KEEPALIVE_LEN - 1)

\* a chunk with a tag that is neither k nor w
UnknownChunk == <<Ch.X, 0>>


(***************************************************************************)
(* The replication session.                                                *)
(***************************************************************************)
VARIABLES
    session,                  \* Streaming, Receiving (inside get_copy_data),
                              \* Sending (inside send_event),
                              \* Closed, Failed, Panicked
    received_lsn,             \* ReplicationState.received_lsn
    applied_lsn,              \* ReplicationState.applied_lsn
    relations,                \* ReplicationState.relations
    last_feedback_time,       \* ReplicationState.last_feedback_time
    shutdown_signal,          \* the shutdown flag
    now,                      \* the clock, in seconds since the loop started
    conn_ok,                  \* the connection to the server works
    sink_kind,                \* the configured event sink
    pending,                  \* the message send_event was called with
    sink_pc,                  \* idle, entry, loop: position inside send_event
    attempt,                  \* send_event: attempt
    delay_ms,                 \* send_event: delay_ms
    continue_on_retry_exceed, \* Hook0 send_event: continue_on_retry_exceed
    slept_ms,                 \* send_event: the delays slept so far, in order
    unknown_event_types,      \* Hook0EventSink.unknown_event_types
    decoder_relations,        \* ReplicationEventDecoder.relations
    recv_calls,               \* number of get_copy_data calls made
    legacy,                   \* server.rs: no_data_count
    trace                     \* what the session did, in order

vars == <<session, received_lsn, applied_lsn, relations, last_feedback_time,
          shutdown_signal, now, conn_ok, sink_kind, pending, sink_pc, attempt,
          delay_ms, continue_on_retry_exceed, slept_ms, unknown_event_types,
          decoder_relations, recv_calls, legacy, trace>>

envVars == <<shutdown_signal, now, conn_ok>>

sinkLocals == <<sink_pc, attempt, delay_ms, continue_on_retry_exceed, slept_ms>>

sinkState == <<unknown_event_types, decoder_relations>>

NoMessage == [kind |-> "None"]

\* ReplicationConfig::default
feedback_interval_secs == 1

SinkKinds == {"stdout", "http", "hook0"}

Live == {"Streaming", "Receiving", "Sending"}

\* SystemTime::now(): the loop starts at the PostgreSQL epoch
SystemTimeNow == PG_EPOCH_OFFSET_SECS + now

(***************************************************************************)
(* Entries of trace.                                                       *)
(***************************************************************************)
Ev(e, id, pos, ok, ack, frame) ==
    [e |-> e, id |-> id, pos |-> pos, ok |-> ok, ack |-> ack, frame |-> frame]

\* the chunk is an XLogData message whose payload decodes
Decodes(chunk) ==
    /\ Len(chunk) > XLOGDATA_HEADER_LEN
    /\ At(chunk, 0) = Ch.w
    /\ IsOk(parse_wal_message(Slice(chunk, XLOGDATA_HEADER_LEN)))

\* the chunk is a keepalive with reply_requested = 1
AsksReply(chunk) ==
    /\ Len(chunk) >= KEEPALIVE_LEN
    /\ At(chunk, 0) = Ch.k
    /\ At(chunk, 17) # 0

\* the data_start field of the header of an XLogData chunk, 0 for another
\* chunk
HeaderDataStart(chunk) ==
    IF Len(chunk) >= XLOGDATA_HEADER_LEN /\ At(chunk, 0) = Ch.w
    THEN from_be_bytes(SubSeq(chunk, 2, 9))
    ELSE 0

\* get_copy_data was called for the id-th time and returned the chunk frame
\* (the empty chunk for None); ok: it returned Ok; pos: the data_start of
\* the header of the chunk; ack: what the chunk is
\*   message   - an XLogData whose payload decodes
\*   reply     - a keepalive that requests a reply
EvRecv(id, ok, frame) ==
    Ev("recv", id, HeaderDataStart(frame), ok,
       IF Decodes(frame) THEN "message"
       ELSE IF AsksReply(frame) THEN "reply" ELSE "",
       frame)

\* the payload of the id-th chunk, an XLogData with data_start pos, was not
\* decoded
EvFail(id, pos) == Ev("fail", id, pos, FALSE, "", << >>)

\* send_event was called with the message of the id-th chunk, an XLogData
\* with data_start pos
EvSend(id, pos) == Ev("send", id, pos, TRUE, "", << >>)

\* send_event returned; ok: it returned Ok(()); ack: what became of the
\* event
\*   delivered - the destination accepted it
\*   duplicate - the destination had it already
\*   none      - the message is not an event of this sink
\*   skipped   - no delivery was attempted
\*   failed    - the delivery failed or was rejected
EvRet(id, pos, ok, ack) == Ev("ret", id, pos, ok, ack, << >>)

\* put_copy_data accepted a standby status update
EvFb(frame) == Ev("fb", 0, 0, TRUE, "", frame)

\* flush has sent the output buffer of the connection
EvFlush == Ev("flush", 0, 0, TRUE, "", << >>)

(***************************************************************************)
(* The methods of ReplicationServer work on self: the fields of the        *)
(* server the method can change.  A method returns Ok, Err or Panic with   *)
(* self as it is when the method returns.                                  *)
(***************************************************************************)
\* The trace keeps a chunk or a frame in full as long as the step that
\* logged it is the last step of the server; of an older feedback frame it
\* keeps the tag and the three positions, and the timestamp as well while no
\* later frame was sent; of an older chunk it keeps the entry alone.
IsLastFb(tr, i) ==
    /\ tr[i].e = "fb"
    /\ \A j \in (i + 1)..Len(tr) : tr[j].e # "fb"

Compact(tr) ==
    [i \in 1..Len(tr) |->
        [tr[i] EXCEPT !.frame =
            IF tr[i].e # "fb" THEN << >>
            ELSE SubSeq(@, 1, Min(Len(@), IF IsLastFb(tr, i)
                                          THEN FEEDBACK_LEN - 1 ELSE 25))]]

Self ==
    [received_lsn |-> received_lsn, applied_lsn |-> applied_lsn,
     relations |-> relations, last_feedback_time |-> last_feedback_time,
     pending |-> pending, trace |-> Compact(trace), legacy |-> legacy]

ErrS(self, e) == [res |-> "Err", val |-> self, err |-> e]

PanicS(self, e) == [res |-> "Panic", val |-> self, err |-> e]

Log(self, ev) == [self EXCEPT !.trace = Append(@, ev)]

\* PGConnection::put_copy_data
put_copy_data(self, data) ==
    IF conn_ok THEN Ok(Log(self, EvFb(data)))
    ELSE ErrS(self, "Failed to send copy data")

\* PGConnection::flush
flush(self) ==
    IF conn_ok THEN Ok(Log(self, EvFlush))
    ELSE ErrS(self, "Failed to flush connection")

send_feedback(self) ==
    Match(FeedbackBuf(self.received_lsn, self.applied_lsn, SystemTimeNow),
          LAMBDA reply_buf : put_copy_data(self, reply_buf),
          LAMBDA e : ErrS(self, e.val))

update_feedback_time(self) == [self EXCEPT !.last_feedback_time = now]

check_and_send_feedback(self) ==
    IF now - self.last_feedback_time > feedback_interval_secs
    THEN Then(send_feedback(self), LAMBDA s : Ok(update_feedback_time(s)))
    ELSE Ok(self)

\* mutant: a failure of the final feedback or of the flush is returned
perform_graceful_shutdown_strict(self) ==
    Then(send_feedback(self), flush)

\* mutant: the output buffer is not flushed
perform_graceful_shutdown_unflushed(self) ==
    Ok(send_feedback(self).val)

\* a failure of the final feedback or of the flush is logged only
perform_graceful_shutdown(self) ==
    Ok(flush(send_feedback(self).val).val)

\* mutant: the reply flag is not looked at
process_keepalive_message_silent(self, data) ==
    IF Len(data) < KEEPALIVE_LEN THEN ErrS(self, "Keepalive message too short")
    ELSE Match(KeepaliveMessage_try_from(data),
               LAMBDA k : Ok(self),
               LAMBDA e : ErrS(self, e.val))

process_keepalive_message(self, data) ==
    IF Len(data) < KEEPALIVE_LEN THEN ErrS(self, "Keepalive message too short")
    ELSE Match(KeepaliveMessage_try_from(data),
               LAMBDA k : IF k.reply_requested
                          THEN Then(send_feedback(self), flush)
                          ELSE Ok(self),
               LAMBDA e : ErrS(self, e.val))

\* process_wal_message once the parser has returned parsed: up to the call
\* of send_event in process_replication_message
process_parsed(self, parsed, id, data_start) ==
    IF IsErr(parsed) THEN ErrS(Log(self, EvFail(id, data_start)), parsed.val)
    ELSE IF IsPanic(parsed) THEN PanicS(Log(self, EvFail(id, data_start)), parsed.val)
    ELSE Ok(Log([self EXCEPT
                   !.relations = IF parsed.val.kind = "Relation"
                                 THEN add_relation(@, parsed.val.relation)
                                 ELSE @,
                   !.pending = parsed.val],
                EvSend(id, data_start)))

\* process_wal_message once the frame header has been read
process_xlog_data(self, w, id) ==
    IF w.data = << >>
    THEN ErrS(Log(self, EvFail(id, w.data_start)), "WAL message has no data")
    ELSE process_parsed(IF w.data_start > 0
                        THEN [self EXCEPT !.received_lsn = update_lsn(@, w.data_start)]
                        ELSE self,
                        parse_wal_message(w.data), id, w.data_start)

\* process_wal_message up to the call of send_event in
\* process_replication_message: Ok means send_event has been called with
\* self.pending
process_wal_message(self, data, id) ==
    Match(XLogDataMessage_try_from(data),
          LAMBDA w : process_xlog_data(self, w, id),
          LAMBDA e : ErrS(self, e.val))

\* mutant: the feedback is sent without advancing applied_lsn
after_send_event_unrecorded(self, result) ==
    IF IsOk(result) THEN send_feedback(self)
    ELSE IF IsPanic(result) THEN PanicS(self, result.val)
    ELSE ErrS(self, "Event sink failed")

\* process_replication_message and process_wal_message from the return of
\* send_event on
after_send_event(self, result) ==
    IF IsOk(result)
    THEN send_feedback([self EXCEPT !.applied_lsn =
                            update_applied_lsn(@, self.received_lsn)])
    ELSE IF IsPanic(result) THEN PanicS(self, result.val)
    ELSE ErrS(self, "Event sink failed")

(***************************************************************************)
(* Init: run() has connected, started the COPY_BOTH stream and enters      *)
(* replication_loop.                                                       *)
(***************************************************************************)
EmptyMap == [x \in {} |-> 0]

\* ReplicationServer::new: the state of a server that has not started
ServerNew ==
    /\ received_lsn = 0
    /\ applied_lsn = 0
    /\ relations = EmptyMap
    /\ last_feedback_time = 0
    /\ now = 0
    /\ conn_ok = TRUE
    /\ pending = NoMessage
    /\ sink_pc = "idle"
    /\ attempt = 0
    /\ delay_ms = 0
    /\ continue_on_retry_exceed = FALSE
    /\ slept_ms = << >>
    /\ unknown_event_types = EmptyMap
    /\ decoder_relations = EmptyMap
    /\ recv_calls = 0
    /\ legacy = [no_data_count |-> 0, messages |-> 0, errors |-> 0]
    /\ trace = << >>

StateInit ==
    /\ session = "Streaming"
    /\ ServerNew

Init ==
    /\ StateInit
    /\ shutdown_signal = FALSE
    /\ sink_kind \in SinkKinds

\* write self back to the fields of the server
Store(self, next_session) ==
    /\ session' = next_session
    /\ received_lsn' = self.received_lsn
    /\ applied_lsn' = self.applied_lsn
    /\ relations' = self.relations
    /\ last_feedback_time' = self.last_feedback_time
    /\ pending' = self.pending
    /\ legacy' = self.legacy
    /\ trace' = self.trace

\* mutant: an error is logged and the session goes on
Outcome_continuing(r, next_session) ==
    IF IsPanic(r) THEN "Panicked"
    ELSE IF IsOk(r) THEN next_session
    ELSE "Streaming"

\* where an error or a panic leaves the session
Outcome(r, next_session) ==
    IF IsOk(r) THEN next_session
    ELSE IF IsPanic(r) THEN "Panicked"
    ELSE "Failed"

(***************************************************************************)
(* The environment: the shutdown signal, the clock, the connection.        *)
(***************************************************************************)
Signal ==
    /\ session \in Live
    /\ ~shutdown_signal
    /\ shutdown_signal' = TRUE
    /\ UNCHANGED <<session, received_lsn, applied_lsn, relations,
                   last_feedback_time, now, conn_ok, sink_kind, pending,
                   sinkLocals, sinkState, recv_calls, legacy, trace>>

\* a second goes by
TimePasses ==
    /\ now < MaxTime
    /\ now' = now + 1
    /\ UNCHANGED <<session, received_lsn, applied_lsn, relations,
                   last_feedback_time, shutdown_signal, conn_ok, sink_kind,
                   pending, sinkLocals, sinkState, recv_calls, legacy, trace>>

\* the session waits inside get_copy_data, which blocks, or inside
\* send_event, which awaits a response or sleeps
Tick ==
    /\ session \in {"Receiving", "Sending"}
    /\ TimePasses

ConnectionLost ==
    /\ session \in Live
    /\ conn_ok
    /\ conn_ok' = FALSE
    /\ UNCHANGED <<session, received_lsn, applied_lsn, relations,
                   last_feedback_time, shutdown_signal, now, sink_kind,
                   pending, sinkLocals, sinkState, recv_calls, legacy, trace>>

(***************************************************************************)
(* replication_loop of replication/server.rs.                              *)
(***************************************************************************)
\* mutant: the loop goes on while send_event is in progress
AtLoopTop_or_sending == session \in {"Streaming", "Sending"}

\* the loop is at its top: no send_event is in progress
AtLoopTop == session = "Streaming"

\* the loop once perform_graceful_shutdown has returned r: break, or out of
\* the loop with the error
ShutDown(r) == Store(r.val, Outcome(r, "Closed"))

\* the shutdown check at the top of the loop
LoopShutdown ==
    /\ AtLoopTop
    /\ shutdown_signal
    /\ ShutDown(perform_graceful_shutdown(Self))
    /\ UNCHANGED <<envVars, sink_kind, sinkLocals, sinkState, recv_calls>>

\* mutant: a chunk that is neither a keepalive nor XLogData ends the session
Dispatch_strict(self, data, id) ==
    IF data = << >> THEN Ok(self)
    ELSE IF At(data, 0) = Ch.k THEN process_keepalive_message(self, data)
    ELSE IF At(data, 0) = Ch.w THEN process_wal_message(self, data, id)
    ELSE ErrS(self, "unknown message type")

\* the chunk dispatch of the loop; an empty chunk is passed over
Dispatch(self, data, id) ==
    IF data = << >> THEN Ok(self)
    ELSE IF At(data, 0) = Ch.k THEN process_keepalive_message(self, data)
    ELSE IF At(data, 0) = Ch.w THEN process_wal_message(self, data, id)
    ELSE Ok(self)

\* the iteration once the chunk has been handled with result r: on to
\* send_event, back to the top of the loop, or out of the loop
LoopDispatched(r) ==
    LET sending == IsOk(r) /\ r.val.pending.kind # "None"
    IN  /\ Store(r.val, Outcome(r, IF sending THEN "Sending" ELSE "Streaming"))
        /\ sink_pc' = IF sending THEN "entry" ELSE sink_pc

\* the iteration from the return of get_copy_data on: the dispatch of the
\* chunk
LoopReceive(self, copy_data, id) ==
    /\ recv_calls' = id
    /\ IF ~conn_ok
       THEN /\ Store(Log(self, EvRecv(id, FALSE, << >>)), "Failed")
            /\ UNCHANGED sink_pc
       ELSE IF ~copy_data.some
       THEN /\ Store(Log(self, EvRecv(id, TRUE, copy_data.data)), "Streaming")
            /\ UNCHANGED sink_pc
       ELSE LoopDispatched(
                Dispatch(Log(self, EvRecv(id, TRUE, copy_data.data)),
                         copy_data.data, id))

\* the iteration once check_and_send_feedback has returned fb: on to
\* get_copy_data, or out of the loop
LoopChecked(fb) == Store(fb.val, Outcome(fb, "Receiving"))

\* the top of an iteration whose shutdown check sees no signal: periodic
\* feedback, then the call of get_copy_data, which blocks until the server
\* sends a chunk
LoopTop ==
    /\ AtLoopTop
    /\ ~shutdown_signal
    /\ LoopChecked(check_and_send_feedback(Self))
    /\ UNCHANGED <<envVars, sink_kind, sinkLocals, sinkState, recv_calls>>

LoopEnter ==
    /\ recv_calls < MaxRecv
    /\ LoopTop

\* the rest of the iteration: get_copy_data returns and the chunk is
\* dispatched
LoopBody(copy_data) ==
    /\ session = "Receiving"
    /\ LoopReceive(Self, copy_data, recv_calls + 1)
    /\ UNCHANGED <<envVars, sink_kind, attempt, delay_ms,
                   continue_on_retry_exceed, slept_ms, sinkState>>

LoopIterate(copy_data) ==
    /\ recv_calls < MaxRecv
    /\ LoopBody(copy_data)

(***************************************************************************)
(* The return of send_event into process_replication_message, the          *)
(* feedback of process_wal_message and the shutdown check after a WAL      *)
(* message.                                                                *)
(***************************************************************************)
LastSend ==
    trace[CHOOSE i \in 1..Len(trace) :
              /\ trace[i].e = "send"
              /\ \A j \in (i + 1)..Len(trace) : trace[j].e # "send"]

\* mutant: the signal is not looked at after a WAL message
WalMessageDone_unchecked(r) == Store(r.val, Outcome(r, "Streaming"))

\* process_wal_message has returned r: the shutdown check after a WAL
\* message
WalMessageDone(r) ==
    IF IsOk(r) /\ shutdown_signal
    THEN ShutDown(perform_graceful_shutdown(r.val))
    ELSE Store(r.val, Outcome(r, "Streaming"))

SinkReturns(result, ack) ==
    /\ WalMessageDone(
           after_send_event(
               Log([Self EXCEPT !.pending = NoMessage],
                   EvRet(LastSend.id, LastSend.pos, IsOk(result), ack)),
               result))
    /\ sink_pc' = "idle"
    /\ attempt' = 0
    /\ delay_ms' = 0
    /\ continue_on_retry_exceed' = FALSE
    /\ slept_ms' = << >>
    /\ UNCHANGED <<envVars, sink_kind, recv_calls>>

\* send_event is in its retry loop, having slept the delays of slept
SinkLoops(next_attempt, next_delay_ms, next_continue, slept) ==
    /\ sink_pc' = "loop"
    /\ attempt' = next_attempt
    /\ delay_ms' = next_delay_ms
    /\ continue_on_retry_exceed' = next_continue
    /\ slept_ms' = slept
    /\ UNCHANGED <<session, received_lsn, applied_lsn, relations,
                   last_feedback_time, envVars, sink_kind, pending,
                   recv_calls, legacy, trace>>

\* send_event enters its retry loop
SinkRetries(next_attempt, next_delay_ms, next_continue) ==
    SinkLoops(next_attempt, next_delay_ms, next_continue, slept_ms)

\* send_event goes round its retry loop: tokio::time::sleep(slept) and the
\* new delay
SinkSleeps(slept, next_attempt, next_delay_ms, next_continue) ==
    SinkLoops(next_attempt, next_delay_ms, next_continue, Append(slept_ms, slept))

(***************************************************************************)
(* The sinks.                                                              *)
(***************************************************************************)
InSendEvent(kind, pc) ==
    /\ session = "Sending"
    /\ sink_kind = kind
    /\ sink_pc = pc

\* retry configuration of the HTTP sink and of the Hook0 sink
max_retries == 5

base_delay_ms == 1000

max_delay_ms == 30000

\* StdoutEventSink::send_event: print the event
StdoutSendEvent ==
    /\ InSendEvent("stdout", "entry")
    /\ SinkReturns(Ok("()"), "delivered")
    /\ UNCHANGED sinkState

\* HttpEventSink::send_event up to its loop
HttpSendEvent ==
    /\ InSendEvent("http", "entry")
    /\ SinkRetries(0, base_delay_ms, FALSE)
    /\ UNCHANGED sinkState

\* what the POST comes back with: a response whose status is a success, a
\* client error other than 429, 429 or a server error, or a transport error
HttpResponses == {"success", "4xx", "429", "5xx", "error"}

\* mutant: when the retries are used up the sink gives the event up
HttpAttempt_giving_up(response) ==
    /\ InSendEvent("http", "loop")
    /\ LET next_attempt == attempt + 1
       IN  IF response = "success" THEN SinkReturns(Ok("()"), "delivered")
           ELSE IF next_attempt >= max_retries
           THEN SinkReturns(Ok("()"), "failed")
           ELSE SinkSleeps(delay_ms, next_attempt,
                           Min(delay_ms * 2, max_delay_ms), FALSE)
    /\ UNCHANGED sinkState

\* one round of the loop of HttpEventSink::send_event; response is what the
\* POST came back with: a success status, another status, a transport error
HttpAttempt(response) ==
    /\ InSendEvent("http", "loop")
    /\ LET next_attempt == attempt + 1
       IN  IF response = "success" THEN SinkReturns(Ok("()"), "delivered")
           ELSE IF next_attempt >= max_retries
           THEN SinkReturns(Err("HTTP endpoint failed"), "failed")
           ELSE SinkSleeps(delay_ms, next_attempt,
                           Min(delay_ms * 2, max_delay_ms), FALSE)
    /\ UNCHANGED sinkState

(***************************************************************************)
(* The typed decoder of the Hook0 sink (event_sink/pg_type_conversion.rs). *)
(***************************************************************************)
\* the type OIDs PgType::try_from accepts
PgTypeOids ==
    {16, 17, 18, 19, 20, 21, 22, 23, 25, 26, 27, 28, 29, 30, 114, 142, 5069,
     600, 601, 602, 603, 604, 628, 700, 701, 705, 718, 790, 829, 869, 650,
     774, 1033, 1042, 1043, 1082, 1083, 1114, 1184, 1186, 1266, 1560, 1562,
     1700, 1790, 2950, 3614, 3642, 3615, 3802, 4072, 2970, 3904, 3906, 3908,
     3910, 3912, 3926, 4451, 4532, 4533, 4534, 4535}

\* relation.columns.iter().filter_map(to_tuple).collect()
to_tuples(columns) ==
    LET known(c) == c.column_type \in PgTypeOids
        kept == SelectSeq(columns, known)
    IN  [i \in 1..Len(kept) |->
            [name |-> kept[i].column_name, type |-> kept[i].column_type]]

\* the row of a tuple: column name -> text of the last column of that name
tuple_to_row(rels, relation_id, tuple_data) ==
    IF relation_id \notin DOMAIN rels THEN Panic("Unknown table OID")
    ELSE LET table == rels[relation_id]
             cols == tuple_data.columns
         IN  IF Len(cols) > Len(table) THEN Panic("index out of bounds")
             ELSE Ok([name \in {table[i].name : i \in 1..Len(cols)} |->
                        LET i == CHOOSE i \in 1..Len(cols) :
                                    /\ table[i].name = name
                                    /\ \A j \in (i + 1)..Len(cols) : table[j].name # name
                        IN  [data |-> cols[i].data, type |-> table[i].type]])

\* ReplicationEventDecoder::decode: the decoder's relations afterwards and
\* the row (row.some) or the panic
decode(rels, message) ==
    IF message.kind = "Relation"
    THEN Ok([relations |-> [oid \in DOMAIN rels \cup {message.relation.oid} |->
                                IF oid = message.relation.oid
                                THEN to_tuples(message.relation.columns)
                                ELSE rels[oid]],
             some |-> FALSE, row |-> EmptyMap])
    ELSE IF message.kind \in {"Insert", "Update"}
    THEN LET tuple_data == IF message.kind = "Insert" THEN message.tuple_data
                           ELSE message.new_tuple_data
             row == tuple_to_row(rels, message.relation_id, tuple_data)
         IN  IF ~IsOk(row) THEN row
             ELSE Ok([relations |-> rels, some |-> TRUE, row |-> row.val])
    ELSE Ok([relations |-> rels, some |-> FALSE, row |-> EmptyMap])

(***************************************************************************)
(* The events table of the Hook0 sink (event_sink/hook0.rs).               *)
(***************************************************************************)
\* "event_id", "event_type", "created_at", "metadata", "payload", "labels"
colnames ==
    << <<101, 118, 101, 110, 116, 95, 105, 100>>,
       <<101, 118, 101, 110, 116, 95, 116, 121, 112, 101>>,
       <<99, 114, 101, 97, 116, 101, 100, 95, 97, 116>>,
       <<109, 101, 116, 97, 100, 97, 116, 97>>,
       <<112, 97, 121, 108, 111, 97, 100>>,
       <<108, 97, 98, 101, 108, 115>> >>

\* what the typed values of a row with all six columns turn out to be:
\*   event    - a uuid, a string, a timestamp and three JSON objects
\*   mismatch - some column does not hold a value of the kind required
\*   scalar   - as event, but metadata or labels is JSON other than an object
RowClasses == {"event", "mismatch", "scalar"}

\* parse_event_row: the event type of the row, or the error
parse_event_row(row, class) ==
    IF \E i \in 1..Len(colnames) : colnames[i] \notin DOMAIN row
    THEN Err("Missing columns")
    ELSE IF class = "mismatch" THEN Err("not a column value of the kind")
    ELSE Ok([event_type |-> row[colnames[2]].data, class |-> class])

EventsOid == TableOid + 1

RECURSIVE EventsColumns(_)
\* the columns of the events table from column i on, as the server sends them
EventsColumns(i) ==
    IF i > Len(colnames) THEN << >>
    ELSE <<IF i = 1 THEN 1 ELSE 0>> \o colnames[i] \o <<0>>
         \o buf_send_u32(CASE i = 1 -> 2950 [] i = 2 -> 25 [] i = 3 -> 1184
                           [] OTHER -> 3802)
         \o buf_send_i32(-1) \o EventsColumns(i + 1)

\* Relation p.e: the events table
EventsRelationPayload ==
    <<Ch.R>> \o buf_send_u32(EventsOid) \o <<112, 0>> \o <<101, 0>> \o <<Ch.d>>
             \o buf_send_i16(Len(colnames)) \o EventsColumns(1)

\* Insert into p.e of a row of six one-character texts
EventsInsertPayload ==
    <<Ch.I>> \o buf_send_u32(EventsOid) \o <<Ch.N>> \o buf_send_i16(Len(colnames))
             \o <<Ch.t>> \o buf_send_i32(1) \o <<49>>
             \o <<Ch.t>> \o buf_send_i32(1) \o <<49>>
             \o <<Ch.t>> \o buf_send_i32(1) \o <<49>>
             \o <<Ch.t>> \o buf_send_i32(1) \o <<49>>
             \o <<Ch.t>> \o buf_send_i32(1) \o <<49>>
             \o <<Ch.t>> \o buf_send_i32(1) \o <<49>>

(***************************************************************************)
(* The chunks get_copy_data returns in the model.                          *)
(***************************************************************************)
WalChunks ==
    {XLogDataFrame(l, InsertPayload) : l \in Lsns}
    \cup {XLogDataFrame(4096, RelationPayload),
          XLogDataFrame(4096, BadPayload),
          XLogDataFrame(4096, EventsRelationPayload),
          XLogDataFrame(4096 + 64, EventsInsertPayload),
          XLogDataFrame(4096 + 64, << >>),
          ShortXLogData}

Chunks ==
    WalChunks
    \cup {KeepaliveFrame(4096 + 64, 0), KeepaliveFrame(4096 + 64, 1),
          ShortKeepalive, UnknownChunk, << >>}

\* Option<Vec<u8>>
None == [some |-> FALSE, data |-> << >>]

Some(data) == [some |-> TRUE, data |-> data]

CopyData == {None} \cup {Some(c) : c \in Chunks}

(***************************************************************************)
(* Hook0EventSink::send_event.                                             *)
(***************************************************************************)
\* Duration::minutes(5), in seconds
SuppressSecs == 5 * 60

\* mutant: the time stored is the start of the clock
MapInsert_epoch(map, key, value) ==
    [k \in DOMAIN map \cup {key} |-> IF k = key THEN 0 ELSE map[k]]

\* map.insert(key, value)
MapInsert(map, key, value) ==
    [k \in DOMAIN map \cup {key} |-> IF k = key THEN value ELSE map[k]]

\* map.remove(key)
MapRemove(map, key) == [k \in DOMAIN map \ {key} |-> map[k]]

\* send_event up to its loop: decode, parse_event_row, the suppression check
\* and the construction of the Hook0 event
Hook0SendEvent(class) ==
    /\ InSendEvent("hook0", "entry")
    /\ LET decoded_event == decode(decoder_relations, pending)
       IN  IF IsPanic(decoded_event)
           THEN SinkReturns(decoded_event, "failed") /\ UNCHANGED sinkState
           ELSE /\ decoder_relations' = decoded_event.val.relations
                /\ IF ~decoded_event.val.some
                   THEN SinkReturns(Ok("()"), "none") /\ UNCHANGED unknown_event_types
                   ELSE LET event_row == parse_event_row(decoded_event.val.row, class)
                        IN  IF IsErr(event_row)
                            THEN SinkReturns(event_row, "failed") /\ UNCHANGED unknown_event_types
                            ELSE LET event_type == event_row.val.event_type
                                     known == event_type \in DOMAIN unknown_event_types
                                 IN  IF known /\ now - unknown_event_types[event_type] < SuppressSecs
                                     THEN SinkReturns(Ok("()"), "skipped") /\ UNCHANGED unknown_event_types
                                     ELSE /\ unknown_event_types' =
                                               MapRemove(unknown_event_types, event_type)
                                          /\ IF class = "scalar"
                                             THEN SinkReturns(Panic("as_object().unwrap()"), "failed")
                                             ELSE SinkRetries(0, base_delay_ms, FALSE)

\* what hook0_client.send_event comes back with: Ok, an EventSending error
\* whose body names a Hook0ErrorId, an EventSending error without body, or
\* an error of another kind
Hook0Outcomes ==
    {"Ok", "EventTypeDoesNotExist", "EventAlreadyIngested",
     "InternalServerError", "InvalidEventId", "InvalidPayload", "Unauthorized",
     "RateLimitExceeded", "NoBody", "Unexpected"}

\* event_row.event_type of the message being sent
PendingEventType ==
    LET tuple_data == IF pending.kind = "Insert" THEN pending.tuple_data
                      ELSE pending.new_tuple_data
    IN  tuple_to_row(decoder_relations, pending.relation_id, tuple_data).val[colnames[2]].data

\* one round of the loop
Hook0Attempt(outcome) ==
    /\ InSendEvent("hook0", "loop")
    /\ LET next_attempt == attempt + 1
           limited_delay_ms == IF outcome = "RateLimitExceeded"
                               THEN Min(delay_ms * 2, max_delay_ms)
                               ELSE delay_ms
           next_continue == continue_on_retry_exceed \/ outcome = "Unexpected"
       IN  IF outcome = "Ok"
           THEN SinkReturns(Ok("()"), "delivered") /\ UNCHANGED sinkState
           ELSE IF outcome = "EventTypeDoesNotExist"
           THEN /\ unknown_event_types' =
                       MapInsert(unknown_event_types, PendingEventType, now)
                /\ SinkReturns(Ok("()"), "failed")
                /\ UNCHANGED decoder_relations
           ELSE IF outcome = "EventAlreadyIngested"
           THEN SinkReturns(Ok("()"), "duplicate") /\ UNCHANGED sinkState
           ELSE IF outcome = "Unauthorized"
           THEN SinkReturns(Panic("Unauthorized access to Hook0 API"), "failed")
                /\ UNCHANGED sinkState
           ELSE IF next_attempt >= max_retries
           THEN /\ IF next_continue THEN SinkReturns(Ok("()"), "failed")
                   ELSE SinkReturns(Panic("Failed to send replication event"), "failed")
                /\ UNCHANGED sinkState
           ELSE /\ SinkSleeps(limited_delay_ms, next_attempt,
                              Min(limited_delay_ms * 2, max_delay_ms), next_continue)
                /\ UNCHANGED sinkState

(***************************************************************************)
(* The session of replication/server.rs.                                   *)
(***************************************************************************)
Next ==
    \/ Signal
    \/ Tick
    \/ ConnectionLost
    \/ LoopShutdown
    \/ LoopEnter
    \/ \E copy_data \in CopyData : LoopIterate(copy_data)
    \/ StdoutSendEvent
    \/ HttpSendEvent
    \/ \E response \in HttpResponses : HttpAttempt(response)
    \/ \E class \in RowClasses : Hook0SendEvent(class)
    \/ \E outcome \in Hook0Outcomes : Hook0Attempt(outcome)

Spec == Init /\ [][Next]_vars

(***************************************************************************)
(* The server of server.rs.  It logs the messages: it has no sink and      *)
(* reports no apply position.  legacy holds no_data_count of its loop and  *)
(* the counters of its MetricsTracker.  An error is Err with the kind of   *)
(* ReplicationError in err.                                                *)
(***************************************************************************)
INVALID_XLOG_REC_PTR == 0

max_no_data_cycles == 100

error_count_threshold == 100

record_message(self) == [self EXCEPT !.legacy.messages = @ + 1]

record_error(self) == [self EXCEPT !.legacy.errors = @ + 1]

\* put_copy_data and flush of utils.rs fail with a Protocol error
send_feedback_data(self, data) ==
    Match(Then(put_copy_data(self, data), flush),
          LAMBDA s : Ok(s),
          LAMBDA e : ErrS(e.val, "Protocol"))

\* send_feedback of server.rs
legacy_send_feedback(self) ==
    IF self.received_lsn = 0 THEN Ok(self)
    ELSE Match(FeedbackBuf(self.received_lsn, INVALID_XLOG_REC_PTR, SystemTimeNow),
               LAMBDA reply_buf : send_feedback_data(self, reply_buf),
               LAMBDA e : ErrS(self, "BufferOperation"))

\* check_and_send_feedback of server.rs: a failure is logged only
legacy_check_and_send_feedback(self) ==
    IF now - self.last_feedback_time > feedback_interval_secs
    THEN Ok(update_feedback_time(legacy_send_feedback(self).val))
    ELSE Ok(self)

\* error_rate > error_rate_threshold, the threshold being 0.1
validate_connection(self) ==
    IF /\ self.legacy.errors > error_count_threshold
       /\ self.legacy.messages + self.legacy.errors > 0
       /\ self.legacy.errors * 10 > self.legacy.messages + self.legacy.errors
    THEN ErrS(self, "Protocol")
    ELSE Ok(self)

\* process_keepalive_message of server.rs
legacy_process_keepalive_message(self, data) ==
    IF Len(data) < KEEPALIVE_LEN THEN ErrS(self, "Protocol")
    ELSE legacy_send_feedback(
             [self EXCEPT !.received_lsn = update_lsn(@, buf_recv_u64(Slice(data, 1)))])

\* process_replication_message of server.rs: the message is logged, a
\* Relation is remembered
legacy_process_replication_message(self, message) ==
    IF message.kind = "Relation"
    THEN [self EXCEPT !.relations = add_relation(@, message.relation)]
    ELSE self

\* the kinds of ReplicationError the error of the parser can arrive as
ParseErrorKinds == {"MessageParsing", "Other"}

\* process_wal_message of server.rs once the parser has returned parsed
legacy_process_parsed(self, parsed, id, data_start, parse_error) ==
    IF IsErr(parsed) THEN ErrS(Log(self, EvFail(id, data_start)), parse_error)
    ELSE IF IsPanic(parsed) THEN PanicS(Log(self, EvFail(id, data_start)), parsed.val)
    ELSE legacy_send_feedback(
             record_message(legacy_process_replication_message(self, parsed.val)))

\* process_wal_message of server.rs once the header has been read and
\* received_lsn updated
legacy_process_xlog_data(self, data, id, data_start, parse_error) ==
    IF Len(data) = XLOGDATA_HEADER_LEN
    THEN ErrS(Log(self, EvFail(id, data_start)), "Protocol")
    ELSE legacy_process_parsed(self, parse_wal_message(Slice(data, XLOGDATA_HEADER_LEN)),
                               id, data_start, parse_error)

\* process_wal_message of server.rs
legacy_process_wal_message(self, data, id, parse_error) ==
    IF Len(data) < XLOGDATA_HEADER_LEN THEN ErrS(self, "Protocol")
    ELSE legacy_process_xlog_data(
             IF buf_recv_u64(Slice(data, 1)) > 0
             THEN [self EXCEPT !.received_lsn =
                       update_lsn(@, buf_recv_u64(Slice(data, 1)))]
             ELSE self,
             data, id, buf_recv_u64(Slice(data, 1)), parse_error)

should_continue_after_error(error) == error \in {"MessageParsing", "Protocol"}

\* the 'w' branch of the loop: r is what process_wal_message returned
LegacyWalBranch(r) ==
    IF IsOk(r) THEN Ok(record_message(r.val))
    ELSE IF IsPanic(r) THEN r
    ELSE IF should_continue_after_error(r.err) THEN Ok(record_error(r.val))
    ELSE ErrS(record_error(r.val), r.err)

\* the chunk dispatch of the loop
LegacyDispatch(self, data, id, parse_error) ==
    IF data = << >> THEN Ok(self)
    ELSE IF At(data, 0) = Ch.k THEN legacy_process_keepalive_message(self, data)
    ELSE IF At(data, 0) = Ch.w
    THEN LegacyWalBranch(legacy_process_wal_message(self, data, id, parse_error))
    ELSE Ok(record_error(self))

\* the None branch of the loop
LegacyNoData(self) ==
    IF self.legacy.no_data_count + 1 >= max_no_data_cycles
    THEN Then(validate_connection(self),
              LAMBDA s : Ok([s EXCEPT !.legacy.no_data_count = 0]))
    ELSE Ok([self EXCEPT !.legacy.no_data_count = @ + 1])

\* the end of the iteration: r is what the branch taken returned
LegacyIterated(r) == Store(r.val, Outcome(r, "Streaming"))

\* the iteration from get_copy_data on
LegacyReceive(self, copy_data, id, parse_error) ==
    IF ~conn_ok
    THEN Store(Log(self, EvRecv(id, FALSE, << >>)), "Failed")
    ELSE IF ~copy_data.some
    THEN LegacyIterated(LegacyNoData(Log(self, EvRecv(id, TRUE, << >>))))
    ELSE LegacyIterated(
             LegacyDispatch([Log(self, EvRecv(id, TRUE, copy_data.data))
                                EXCEPT !.legacy.no_data_count = 0],
                            copy_data.data, id, parse_error))

\* one iteration of replication_loop of server.rs
LegacyLoopIterate(copy_data, parse_error) ==
    /\ AtLoopTop
    /\ ~shutdown_signal
    /\ recv_calls < MaxRecv
    /\ recv_calls' = recv_calls + 1
    /\ LegacyReceive(legacy_check_and_send_feedback(Self).val, copy_data,
                     recv_calls + 1, parse_error)
    /\ UNCHANGED <<envVars, sink_kind, sinkLocals, sinkState>>

\* the shutdown check and the final feedback; a retry of the final feedback
\* meets the connection as the first attempt left it
LegacyLoopShutdown ==
    /\ AtLoopTop
    /\ shutdown_signal
    /\ Store(legacy_send_feedback(Self).val, "Closed")
    /\ UNCHANGED <<envVars, sink_kind, sinkLocals, sinkState, recv_calls>>

\* request_shutdown takes the server by &mut: it is called before run or
\* not at all
InitLegacy ==
    /\ StateInit
    /\ shutdown_signal \in BOOLEAN
    /\ sink_kind = "stdout"

\* the session waits inside get_copy_data, which blocks
LegacyTick ==
    /\ session = "Streaming"
    /\ TimePasses

NextLegacy ==
    \/ LegacyTick
    \/ ConnectionLost
    \/ LegacyLoopShutdown
    \/ \E copy_data \in CopyData, parse_error \in ParseErrorKinds :
           LegacyLoopIterate(copy_data, parse_error)

SpecLegacy == InitLegacy /\ [][NextLegacy]_vars

(***************************************************************************)
(* ReplicationState on its own: update_lsn and update_applied_lsn called   *)
(* with any position up to MaxLsn, in any order.  The trace holds the last *)
(* call.                                                                   *)
(***************************************************************************)
EvCall(method, lsn) == Ev(method, 0, lsn, TRUE, "", << >>)

UpdateLsn(lsn) ==
    /\ received_lsn' = update_lsn(received_lsn, lsn)
    /\ trace' = <<EvCall("update_lsn", lsn)>>
    /\ UNCHANGED <<session, applied_lsn, relations, last_feedback_time,
                   envVars, sink_kind, pending, sinkLocals, sinkState,
                   recv_calls, legacy>>

UpdateAppliedLsn(lsn) ==
    /\ applied_lsn' = update_applied_lsn(applied_lsn, lsn)
    /\ trace' = <<EvCall("update_applied_lsn", lsn)>>
    /\ UNCHANGED <<session, received_lsn, relations, last_feedback_time,
                   envVars, sink_kind, pending, sinkLocals, sinkState,
                   recv_calls, legacy>>

InitState ==
    /\ StateInit
    /\ shutdown_signal = FALSE
    /\ sink_kind = "stdout"

NextState ==
    \/ \E lsn \in 0..MaxLsn : UpdateLsn(lsn)
    \/ \E lsn \in 0..MaxLsn : UpdateAppliedLsn(lsn)

SpecState == InitState /\ [][NextState]_vars

(***************************************************************************)
(* One transaction: the server sends Relation, Begin, Insert and Commit in *)
(* four XLogData frames.  The Commit message has commit_lsn 0x1000 and     *)
(* end_lsn 0x1040; the data_start of each frame header is one of TxnLsns.  *)
(***************************************************************************)
TxnEndLsn == 4096 + 64

TxnLsns == {4096, TxnEndLsn}

TxnPayloads ==
    <<EventsRelationPayload, BeginPayload(4096), EventsInsertPayload,
      CommitPayload(4096, TxnEndLsn)>>

\* the top of an iteration while frames of the transaction are to come
TxnEnter ==
    /\ recv_calls < Len(TxnPayloads)
    /\ LoopTop

\* get_copy_data returns the next frame of the transaction
TxnIterate ==
    /\ recv_calls < Len(TxnPayloads)
    /\ \E data_start \in TxnLsns :
           LoopBody(Some(XLogDataFrame(data_start, TxnPayloads[recv_calls + 1])))

NextTxn ==
    \/ TxnEnter
    \/ TxnIterate
    \/ StdoutSendEvent
    \/ HttpSendEvent
    \/ \E response \in HttpResponses : HttpAttempt(response)
    \/ \E class \in RowClasses : Hook0SendEvent(class)
    \/ \E outcome \in Hook0Outcomes : Hook0Attempt(outcome)

SpecTxn == Init /\ [][NextTxn]_vars

(***************************************************************************)
(* The start of the session: run_replication_server identifies the system, *)
(* create_replication_slot_and_start checks the configuration of the       *)
(* server and starts the stream.  Each command is a call of exec; result   *)
(* is what PQexec came back with.                                          *)
(***************************************************************************)
\* exec returned Err: PQexec returned a null result
NullResult == [null |-> TRUE, status |-> "", ntuples |-> 0, value |-> ""]

\* exec returned Ok: status is PQresultStatus, ntuples PQntuples, value
\* getvalue(0, 0) when there is a row
PGResult(status, ntuples, value) ==
    [null |-> FALSE, status |-> status, ntuples |-> ntuples, value |-> value]

FatalError == PGResult("PGRES_FATAL_ERROR", 0, "")

\* PGResult::is_ok
is_ok(result) == result.status \in {"PGRES_TUPLES_OK", "PGRES_COMMAND_OK"}

\* what the server answers to each command; a walsender answers
\* IDENTIFY_SYSTEM with one row or with an error
IdentifyResults ==
    {NullResult, FatalError, PGResult("PGRES_TUPLES_OK", 1, "system_id")}

WalLevelResults ==
    {NullResult, FatalError, PGResult("PGRES_TUPLES_OK", 0, "")}
    \cup {PGResult("PGRES_TUPLES_OK", 1, level) : level \in {"logical", "replica"}}

RowResults ==
    {NullResult, FatalError, PGResult("PGRES_TUPLES_OK", 0, ""),
     PGResult("PGRES_TUPLES_OK", 1, "name")}

StartResults ==
    {NullResult, FatalError, PGResult("PGRES_COMMAND_OK", 0, ""),
     PGResult("PGRES_COPY_BOTH", 0, "")}

identify_system(result) ==
    IF result.null THEN Err("IDENTIFY_SYSTEM failed")
    ELSE IF ~is_ok(result) THEN Err("IDENTIFY_SYSTEM failed")
    ELSE Ok(TRUE)

check_wal_level(result) ==
    IF result.null THEN Err("Query execution failed")
    ELSE IF ~is_ok(result) THEN Err("Failed to check wal_level")
    ELSE IF result.ntuples = 0 THEN Err("Could not retrieve wal_level value")
    ELSE IF result.value = "logical" THEN Ok(TRUE)
    ELSE Err("wal_level is not set to 'logical'")

\* mutant: a missing slot is not an error
check_replication_slot_lenient(result) ==
    IF result.null THEN Err("Query execution failed")
    ELSE IF ~is_ok(result) THEN Err("Failed to check existing replication slots")
    ELSE Ok(TRUE)

check_replication_slot(result) ==
    IF result.null THEN Err("Query execution failed")
    ELSE IF ~is_ok(result) THEN Err("Failed to check existing replication slots")
    ELSE IF result.ntuples = 0 THEN Err("Replication slot does not exist")
    ELSE Ok(TRUE)

check_publication(result) ==
    IF result.null THEN Err("Query execution failed")
    ELSE IF ~is_ok(result) THEN Err("Failed to check existing publications")
    ELSE IF result.ntuples = 0 THEN Err("Publication does not exist")
    ELSE Ok(TRUE)

\* mutant: the status of the result is not looked at
start_replication_any_status(result) ==
    IF result.null THEN Err("Query execution failed")
    ELSE Ok(TRUE)

\* start_replication up to the call of replication_loop
start_replication(result) ==
    IF result.null THEN Err("Query execution failed")
    ELSE IF result.status # "PGRES_COPY_BOTH" THEN Err("Failed to start replication")
    ELSE Ok(TRUE)

\* exec was called with command and returned result; ok: the function that
\* called it went on
EvExec(command, result, ok) ==
    [e |-> "exec", id |-> 0, pos |-> 0, ok |-> ok, ack |-> command,
     frame |-> << >>, result |-> result]

\* a function of the start has called exec, got result and returned r
StartupStep(command, result, r, next_session) ==
    /\ session' = IF IsOk(r) THEN next_session ELSE "Failed"
    /\ trace' = Append(trace, EvExec(command, result, IsOk(r)))
    /\ UNCHANGED <<received_lsn, applied_lsn, relations, last_feedback_time,
                   envVars, sink_kind, pending, sinkLocals, sinkState,
                   recv_calls, legacy>>

IdentifySystem(result) ==
    /\ session = "Connected"
    /\ StartupStep("IDENTIFY_SYSTEM", result, identify_system(result), "Identified")

CheckWalLevel(result) ==
    /\ session = "Identified"
    /\ StartupStep("SHOW wal_level", result, check_wal_level(result),
                   "WalLevelChecked")

CheckReplicationSlot(result) ==
    /\ session = "WalLevelChecked"
    /\ StartupStep("SELECT pg_replication_slots", result,
                   check_replication_slot(result), "SlotChecked")

CheckPublication(result) ==
    /\ session = "SlotChecked"
    /\ StartupStep("SELECT pg_publication", result, check_publication(result),
                   "PublicationChecked")

StartReplication(result) ==
    /\ session = "PublicationChecked"
    /\ StartupStep("START_REPLICATION", result, start_replication(result),
                   "Streaming")

\* the commands of the start, in the order of the code
StartupCommands ==
    <<"IDENTIFY_SYSTEM", "SHOW wal_level", "SELECT pg_replication_slots",
      "SELECT pg_publication", "START_REPLICATION">>

\* ReplicationServer::new has connected; the sink prints the events
InitRun ==
    /\ session = "Connected"
    /\ ServerNew
    /\ shutdown_signal = FALSE
    /\ sink_kind = "stdout"

NextRun ==
    \/ \E result \in IdentifyResults : IdentifySystem(result)
    \/ \E result \in WalLevelResults : CheckWalLevel(result)
    \/ \E result \in RowResults : CheckReplicationSlot(result)
    \/ \E result \in RowResults : CheckPublication(result)
    \/ \E result \in StartResults : StartReplication(result)
    \/ Signal
    \/ LoopShutdown
    \/ LoopEnter
    \/ \E copy_data \in CopyData : LoopIterate(copy_data)
    \/ StdoutSendEvent

SpecRun == InitRun /\ [][NextRun]_vars

(***************************************************************************)
(* Tuples and relations: the server announces p.t with any number of       *)
(* columns up to MaxCols and sends inserts into p.t of rows of any number  *)
(* of columns up to MaxCols, in any order.                                 *)
(***************************************************************************)
MaxCols == 2

RECURSIVE Repeat(_, _)
\* count copies of bytes
Repeat(bytes, count) ==
    IF count = 0 THEN << >> ELSE bytes \o Repeat(bytes, count - 1)

\* Relation p.t (replica identity default) with count columns e of type text
RelationOf(count) ==
    <<Ch.R>> \o buf_send_u32(TableOid) \o <<112, 0>> \o <<116, 0>> \o <<Ch.d>>
             \o buf_send_i16(count)
             \o Repeat(<<0, 101, 0>> \o buf_send_u32(25) \o buf_send_i32(-1), count)

\* Insert into p.t of a row of count columns '1'
InsertOf(count) ==
    <<Ch.I>> \o buf_send_u32(TableOid) \o <<Ch.N>> \o buf_send_i16(count)
             \o Repeat(<<Ch.t>> \o buf_send_i32(1) \o <<49>>, count)

TuplePayloads ==
    {RelationOf(count) : count \in 0..MaxCols}
    \cup {InsertOf(count) : count \in 0..MaxCols}

\* get_copy_data returns an XLogData frame with one of the payloads
TupleIterate ==
    /\ recv_calls < MaxRecv
    /\ \E data_start \in Lsns \cup TxnLsns, payload \in TuplePayloads :
           LoopBody(Some(XLogDataFrame(data_start, payload)))

NextTuple ==
    \/ LoopEnter
    \/ TupleIterate
    \/ StdoutSendEvent

SpecTuple == InitState /\ [][NextTuple]_vars

(***************************************************************************)
(* Relation messages only: the server announces p.t and the events table,  *)
(* each with any number of columns up to MaxCols, in any order and any     *)
(* number of times.                                                        *)
(***************************************************************************)
RelationOids == {TableOid, EventsOid}

\* Relation p.t with the given oid and count columns e of type text
RelationFor(oid, count) ==
    <<Ch.R>> \o buf_send_u32(oid) \o <<112, 0>> \o <<116, 0>> \o <<Ch.d>>
             \o buf_send_i16(count)
             \o Repeat(<<0, 101, 0>> \o buf_send_u32(25) \o buf_send_i32(-1), count)

\* get_copy_data returns an XLogData frame with a Relation message
RelationIterate ==
    /\ recv_calls < MaxRecv
    /\ \E data_start \in Lsns \cup TxnLsns, oid \in RelationOids, count \in 0..MaxCols :
           LoopBody(Some(XLogDataFrame(data_start, RelationFor(oid, count))))

NextRelations ==
    \/ LoopEnter
    \/ RelationIterate
    \/ StdoutSendEvent

SpecRelations == InitState /\ [][NextRelations]_vars

(***************************************************************************)
(* The Hook0 sink and event types the destination does not know: the       *)
(* server announces the events table and sends three rows, each of event   *)
(* type '1' or '2'; the destination answers Ok or EventTypeDoesNotExist;   *)
(* between the frames the clock advances to one of WaitTimes.              *)
(***************************************************************************)
\* Insert into p.e of a row of one-character texts with the given event_type
EventsInsertOf(event_type) ==
    <<Ch.I>> \o buf_send_u32(EventsOid) \o <<Ch.N>> \o buf_send_i16(Len(colnames))
             \o <<Ch.t>> \o buf_send_i32(1) \o <<49>>
             \o <<Ch.t>> \o buf_send_i32(1) \o <<event_type>>
             \o Repeat(<<Ch.t>> \o buf_send_i32(1) \o <<49>>, Len(colnames) - 2)

EventTypes == {49, 50}

\* number of frames the server sends: the Relation message and three rows
SuppressFrames == 4

\* the times rows arrive at: a second after the start, and a second before,
\* at and a second after the five minutes of the suppression
WaitTimes == {1, SuppressSecs - 1, SuppressSecs, SuppressSecs + 1}

SuppressEnter ==
    /\ recv_calls < SuppressFrames
    /\ LoopTop

\* get_copy_data returns the next frame
SuppressIterate ==
    /\ recv_calls < SuppressFrames
    /\ IF recv_calls = 0
       THEN LoopBody(Some(XLogDataFrame(TxnEndLsn, EventsRelationPayload)))
       ELSE \E event_type \in EventTypes :
                LoopBody(Some(XLogDataFrame(TxnEndLsn, EventsInsertOf(event_type))))

\* the clock advances while the session waits inside get_copy_data
SuppressWait(time) ==
    /\ session = "Receiving"
    /\ now < time
    /\ now' = time
    /\ UNCHANGED <<session, received_lsn, applied_lsn, relations,
                   last_feedback_time, shutdown_signal, conn_ok, sink_kind,
                   pending, sinkLocals, sinkState, recv_calls, legacy, trace>>

InitSuppress ==
    /\ StateInit
    /\ shutdown_signal = FALSE
    /\ sink_kind = "hook0"

NextSuppress ==
    \/ SuppressEnter
    \/ SuppressIterate
    \/ \E time \in WaitTimes : SuppressWait(time)
    \/ Hook0SendEvent("event")
    \/ \E outcome \in {"Ok", "EventTypeDoesNotExist"} : Hook0Attempt(outcome)

SpecSuppress == InitSuppress /\ [][NextSuppress]_vars

(***************************************************************************)
(* The Hook0 sink and tables of any column types: the server announces p.t *)
(* with up to MaxCols columns a, b, ..., each of type text or of a type    *)
(* PgType::try_from does not know, and sends inserts and updates of rows   *)
(* of up to MaxCols one-character texts.                                   *)
(***************************************************************************)
\* text, and the oid of a user-defined type
TypeOids == {25, 16385}

RECURSIVE TypedColumns(_, _)
\* the columns of a Relation message from column i on: column i is named
\* by the i-th letter and has the type types[i]
TypedColumns(types, i) ==
    IF i > Len(types) THEN << >>
    ELSE <<0, 96 + i, 0>> \o buf_send_u32(types[i]) \o buf_send_i32(-1)
         \o TypedColumns(types, i + 1)

\* Relation p.t with the columns of the given types
TypedRelation(types) ==
    <<Ch.R>> \o buf_send_u32(TableOid) \o <<112, 0>> \o <<116, 0>> \o <<Ch.d>>
             \o buf_send_i16(Len(types)) \o TypedColumns(types, 1)

RECURSIVE TextColumns(_, _)
\* the columns of a TupleData from column i on: one-character texts
TextColumns(texts, i) ==
    IF i > Len(texts) THEN << >>
    ELSE <<Ch.t>> \o buf_send_i32(1) \o <<texts[i]>> \o TextColumns(texts, i + 1)

\* Insert into p.t, or Update of p.t without old image, of the row of texts
RowPayload(tag, texts) ==
    <<tag>> \o buf_send_u32(TableOid) \o <<Ch.N>> \o buf_send_i16(Len(texts))
            \o TextColumns(texts, 1)

DecodePayloads ==
    UNION {{TypedRelation(types) : types \in [1..count -> TypeOids]}
           \cup {RowPayload(tag, texts) :
                    tag \in {Ch.I, Ch.U}, texts \in [1..count -> {49, 50}]} :
           count \in 1..MaxCols}

\* get_copy_data returns an XLogData frame with one of the payloads
DecodeIterate ==
    /\ recv_calls < MaxRecv
    /\ \E payload \in DecodePayloads :
           LoopBody(Some(XLogDataFrame(TxnEndLsn, payload)))

NextDecode ==
    \/ LoopEnter
    \/ DecodeIterate
    \/ Hook0SendEvent("event")

SpecDecode == InitSuppress /\ [][NextDecode]_vars

(***************************************************************************)
(* The parser on its own: parse_wal_message is called with an Insert, an   *)
(* Update or a Truncate payload built from its parts.  The trace holds the *)
(* call: the parts, the payload and the result.                            *)
(***************************************************************************)
\* a column of a TupleData: null (0) or a one-character text
TupleColumn(c) ==
    IF c = 0 THEN <<Ch.n>> ELSE <<Ch.t>> \o buf_send_i32(1) \o <<c>>

RECURSIVE TupleBytes(_, _)
TupleBytes(cols, i) ==
    IF i > Len(cols) THEN << >> ELSE TupleColumn(cols[i]) \o TupleBytes(cols, i + 1)

\* TupleData: the column count and the columns
TupleDataOf(cols) == buf_send_i16(Len(cols)) \o TupleBytes(cols, 1)

\* the rows of up to MaxCols columns, each null or '1'
Tuples == UNION {[1..count -> {0, 49}] : count \in 0..MaxCols}

\* the TupleData parse_tuple_data returns for TupleDataOf(cols)
TupleOf(cols) ==
    [column_count |-> Len(cols),
     columns |-> [i \in 1..Len(cols) |->
                    IF cols[i] = 0
                    THEN [data_type |-> Ch.n, length |-> 0, data |-> << >>]
                    ELSE [data_type |-> Ch.t, length |-> 1, data |-> <<cols[i]>>]],
     processed_length |-> Len(TupleDataOf(cols))]

\* transaction ids and relation ids: 1337 and 20001, and 'N' followed by
\* three bytes
Xids == {1337, 78 * 2 ^ 24 + 1}

RelationIds == {20001, 78 * 2 ^ 24 + 1}

\* the xid of a streamed message, or nothing
Prefix(streamed, xid) == IF streamed THEN buf_send_u32(xid) ELSE << >>

\* 'I' | xid? | relation_id | 'N' | tuple
InsertBytes(in) ==
    <<Ch.I>> \o Prefix(in.streamed, in.xid) \o buf_send_u32(in.relation_id)
             \o <<Ch.N>> \o TupleDataOf(in.new)

\* 'U' | xid? | relation_id | ('K' | 'O') tuple? | 'N' | tuple
UpdateBytes(in) ==
    <<Ch.U>> \o Prefix(in.streamed, in.xid) \o buf_send_u32(in.relation_id)
             \o (IF in.marker = Ch.N THEN << >>
                 ELSE <<in.marker>> \o TupleDataOf(in.old))
             \o <<Ch.N>> \o TupleDataOf(in.new)

RECURSIVE IdBytes(_, _)
IdBytes(ids, i) ==
    IF i > Len(ids) THEN << >> ELSE buf_send_u32(ids[i]) \o IdBytes(ids, i + 1)

\* 'T' | xid? | n | flags | n x relation_id
TruncateBytes(in) ==
    <<Ch.T>> \o Prefix(in.streamed, in.xid) \o buf_send_u32(Len(in.relation_ids))
             \o <<in.flags>> \o IdBytes(in.relation_ids, 1)

\* 'D' | xid? | relation_id | marker | tuple
DeleteBytes(in) ==
    <<Ch.D>> \o Prefix(in.streamed, in.xid) \o buf_send_u32(in.relation_id)
             \o <<in.marker>> \o TupleDataOf(in.old)

InsertInputs ==
    [kind : {"Insert"}, streamed : BOOLEAN, xid : Xids, relation_id : RelationIds,
     new : Tuples]

UpdateInputs ==
    [kind : {"Update"}, streamed : BOOLEAN, xid : {1337}, relation_id : {20001},
     marker : {Ch.N}, old : {<< >>}, new : Tuples]
    \cup [kind : {"Update"}, streamed : BOOLEAN, xid : {1337}, relation_id : {20001},
          marker : {Ch.K, Ch.O}, old : Tuples, new : Tuples]

\* the tuple markers 'K' and 'O', and 'X', which is no marker
DeleteInputs ==
    [kind : {"Delete"}, streamed : BOOLEAN, xid : {1337}, relation_id : {20001},
     marker : {Ch.K, Ch.O, Ch.X}, old : Tuples]

\* TRUNCATE of one or two tables with the oids 20001 and 300
TruncatedTables == UNION {[1..count -> {20001, 300}] : count \in 1..2}

\* no option, CASCADE, RESTART IDENTITY, both
TruncateFlags == 0..3

TruncateInputs ==
    [kind : {"Truncate"}, streamed : BOOLEAN, xid : {1337},
     relation_ids : TruncatedTables, flags : TruncateFlags]

\* parse_wal_message was called with buffer, built from the parts in, and
\* returned result
EvParse(in, buffer, result) ==
    [e |-> "parse", id |-> 0, pos |-> 0, ok |-> IsOk(result), ack |-> "",
     frame |-> << >>, in |-> in, buffer |-> buffer, result |-> result]

Parsed(in, buffer, result) ==
    /\ trace' = <<EvParse(in, buffer, result)>>
    /\ pending' = IF IsOk(result) THEN result.val ELSE NoMessage
    /\ UNCHANGED <<session, received_lsn, applied_lsn, relations,
                   last_feedback_time, envVars, sink_kind, sinkLocals,
                   sinkState, recv_calls, legacy>>

Parse(in, buffer) == Parsed(in, buffer, parse_wal_message(buffer))

\* an XLogData payload reaches the parser while the session streams; the
\* parser keeps no state, and a behaviour holds one call

ParseInsert ==
    /\ session = "Streaming"
    /\ trace = << >>
    /\ \E in \in InsertInputs : Parse(in, InsertBytes(in))

ParseUpdate ==
    /\ session = "Streaming"
    /\ trace = << >>
    /\ \E in \in UpdateInputs : Parse(in, UpdateBytes(in))

ParseTruncate ==
    /\ session = "Streaming"
    /\ trace = << >>
    /\ \E in \in TruncateInputs : Parse(in, TruncateBytes(in))

ParseDelete ==
    /\ session = "Streaming"
    /\ trace = << >>
    /\ \E in \in DeleteInputs : Parse(in, DeleteBytes(in))

\* 'c' | xid | flags | commit_lsn | end_lsn | timestamp
StreamCommitBytes(in) ==
    <<Ch.c>> \o buf_send_u32(in.xid) \o <<in.flags>> \o buf_send_u64(in.commit_lsn)
             \o buf_send_u64(in.end_lsn) \o buf_send_i64(in.timestamp)

\* 'A' | xid | subtransaction_xid
StreamAbortBytes(in) ==
    <<Ch.A>> \o buf_send_u32(in.xid) \o buf_send_u32(in.subtransaction_xid)

\* one well-formed streamed payload of each kind that carries an xid
WholePayloads ==
    {InsertBytes([streamed |-> TRUE, xid |-> 1337, relation_id |-> 20001,
                  new |-> <<49, 0>>]),
     UpdateBytes([streamed |-> TRUE, xid |-> 1337, relation_id |-> 20001,
                  marker |-> Ch.K, old |-> <<49>>, new |-> <<49>>]),
     DeleteBytes([streamed |-> TRUE, xid |-> 1337, relation_id |-> 20001,
                  marker |-> Ch.K, old |-> <<49>>]),
     TruncateBytes([streamed |-> TRUE, xid |-> 1337, relation_ids |-> <<20001, 300>>,
                    flags |-> 1]),
     StreamCommitBytes([xid |-> 1337, flags |-> 0, commit_lsn |-> 100,
                        end_lsn |-> 200, timestamp |-> 300]),
     StreamAbortBytes([xid |-> 1337, subtransaction_xid |-> 1338])}

\* the first length bytes of a payload
CutInputs ==
    UNION {[kind : {"Cut"}, whole : {whole}, length : 0..Len(whole)] :
             whole \in WholePayloads}

CutBytes(in) == SubSeq(in.whole, 1, in.length)

\* a payload reaches the parser cut short
ParseCut ==
    /\ session = "Streaming"
    /\ trace = << >>
    /\ \E in \in CutInputs : Parse(in, CutBytes(in))

\* an Insert of one Text column: the declared length, and the bytes that
\* follow it
TextInputs ==
    [kind : {"Text"}, length : {-8, -1, 0, 1, 2, 3},
     data : {<< >>, <<49>>, <<49, 50>>, <<255>>}]

\* 'I' | relation_id | 'N' | 1 | 't' | length | data
TextBytes(in) ==
    <<Ch.I>> \o buf_send_u32(20001) \o <<Ch.N>> \o buf_send_i16(1)
             \o <<Ch.t>> \o buf_send_i32(in.length) \o in.data

\* a row with a Text column reaches the parser
ParseText ==
    /\ session = "Streaming"
    /\ trace = << >>
    /\ \E in \in TextInputs : Parse(in, TextBytes(in))

NextParse ==
    \/ ParseText
    \/ ParseInsert
    \/ ParseUpdate
    \/ ParseDelete
    \/ ParseTruncate
    \/ ParseCut

SpecParse == InitState /\ [][NextParse]_vars

(***************************************************************************)
(* The cursors of buffer.rs on their own: a reader or a writer is created  *)
(* over a buffer and the calls follow each other on it.  The last entry of *)
(* the trace holds the cursor before and after the last call.              *)
(***************************************************************************)
\* the buffers read: nothing, integers, strings with and without their
\* terminator, length-prefixed strings of the lengths 0, 2, 5, 3 (with one
\* byte of data) and -1
ReadBuffers ==
    {<< >>,
     <<0, 0, 0, 0, 0, 0, 1, 2>>,
     <<255, 255, 255, 255, 255, 255, 255, 254>>,
     <<97, 98, 0, 99>>,
     <<0, 0, 0, 0>>,
     <<0, 0, 0, 2, 97, 200>>,
     <<0, 0, 0, 5, 97, 98, 99, 100, 101>>,
     <<0, 0, 0, 3, 97>>,
     <<255, 255, 255, 255, 97>>}

ReadOps ==
    {"u8", "i16", "u32", "i32", "u64", "i64", "null_terminated_string",
     "length_prefixed_string", "length_prefixed_bytes"}

ReadCall(op, reader) ==
    CASE op = "u8" -> read_u8(reader)
      [] op = "i16" -> read_i16(reader)
      [] op = "u32" -> read_u32(reader)
      [] op = "i32" -> read_i32(reader)
      [] op = "u64" -> read_u64(reader)
      [] op = "i64" -> read_i64(reader)
      [] op = "null_terminated_string" -> read_null_terminated_string(reader)
      [] op = "length_prefixed_string" -> read_length_prefixed_string(reader)
      [] op = "length_prefixed_bytes" -> read_length_prefixed_bytes(reader)

\* the integer the read would return is one the model checker can hold: it
\* is below 2^31 in magnitude
Fits(op, reader) ==
    LET byte(i) == At(reader.buffer, reader.position + i)
        high(b) == \A i \in 0..3 : byte(i) = b
    IN  CASE op = "u32" -> has_bytes(reader, 4) => byte(0) < 128
          [] op = "u64" -> has_bytes(reader, 8) => high(0) /\ byte(4) < 128
          [] op = "i64" -> has_bytes(reader, 8) =>
                               \/ high(0) /\ byte(4) < 128
                               \/ high(255) /\ byte(4) >= 128
          [] OTHER -> TRUE

\* the sizes of the buffers written
WriteSizes == {0, 3, 8, 13}

\* the calls of a writer: the values of each width, the strings "" and "ab"
WriteCalls ==
    [op : {"u8"}, value : {0, 1, 255}]
    \cup [op : {"u32"}, value : {0, 16909060, 2147483647}]
    \cup [op : {"i32"}, value : {0, -1, -(2 ^ 30), 2147483647}]
    \cup [op : {"u64"}, value : {0, 16909060, 2147483647}]
    \cup [op : {"i64"}, value : {0, -1, -(2 ^ 30), 2147483647}]
    \cup [op : {"length_prefixed_string", "bytes"}, value : {<< >>, <<97, 98>>}]

WriteCall(op, writer, value) ==
    CASE op = "u8" -> write_u8(writer, value)
      [] op = "u32" -> write_u32(writer, value)
      [] op = "i32" -> write_i32(writer, value)
      [] op = "u64" -> write_u64(writer, value)
      [] op = "i64" -> write_i64(writer, value)
      [] op = "length_prefixed_string" -> write_length_prefixed_string(writer, value)
      [] op = "bytes" -> write_bytes(writer, value)

\* the values sent and received without a cursor
CodecCalls ==
    [op : {"u16"}, value : {0, 258, 65535}]
    \cup [op : {"i16"}, value : {0, -1, 32767, -32768}]

\* the writes made on one writer
MaxWrites == 2

\* call number id on a cursor, op(value), found the cursor before, returned
\* result and left the cursor after
EvCursor(e, id, op, value, before, result, after) ==
    [e |-> e, id |-> id, pos |-> before.position, ok |-> IsOk(result),
     ack |-> "", frame |-> << >>, op |-> op, value |-> value,
     before |-> before, result |-> result, after |-> after]

Last(entries) == entries[Len(entries)]

\* the last call was made on a cursor of the kind
CursorOf(kinds) == trace # << >> /\ Last(trace).e \in kinds

CursorStep(entries) ==
    /\ trace' = entries
    /\ UNCHANGED <<session, received_lsn, applied_lsn, relations,
                   last_feedback_time, envVars, sink_kind, pending,
                   sinkLocals, sinkState, recv_calls, legacy>>

\* BufferReader::new(buffer)
NewReader ==
    /\ session = "Streaming"
    /\ \E buffer \in ReadBuffers :
           CursorStep(<<EvCursor("reader", 0, "new", buffer, BufferReader_new(buffer),
                                 Ok(0), BufferReader_new(buffer))>>)

\* a read on the reader as the last call left it
BufRead ==
    /\ CursorOf({"reader", "buf_read"})
    /\ \E op \in ReadOps :
           LET reader == Last(trace).after
               result == ReadCall(op, reader)
           IN  /\ Fits(op, reader)
               /\ CursorStep(<<EvCursor("buf_read", 0, op, 0, reader, result,
                                            result.reader)>>)

\* BufferWriter::new(&mut buffer) over a zeroed buffer
NewWriter ==
    /\ session = "Streaming"
    /\ \E size \in WriteSizes :
           LET writer == BufferWriter_new([i \in 1..size |-> 0])
           IN  CursorStep(<<EvCursor("writer", 0, "new", size, writer, Ok(0), writer)>>)

\* a write on the writer as the last call left it; a write that returns an
\* error has not touched the writer
BufWrite ==
    /\ CursorOf({"writer", "buf_write"})
    /\ Last(trace).id < MaxWrites
    /\ \E call \in WriteCalls :
           LET writer == Last(trace).after
               result == WriteCall(call.op, writer, call.value)
           IN  CursorStep(<<EvCursor("buf_write", Last(trace).id + 1, call.op, call.value, writer,
                                     result,
                                     IF IsOk(result) THEN result.val ELSE writer)>>)

\* the integer a write has stored is read from the buffer, by a reader set
\* to the position the writer was at
BufReadBack ==
    /\ CursorOf({"buf_write"})
    /\ Last(trace).ok
    /\ Last(trace).op \in ReadOps \ {"length_prefixed_string"}
    /\ LET written == Last(trace)
           reader == [buffer |-> written.after.buffer,
                      position |-> written.before.position]
           result == ReadCall(written.op, reader)
       IN  CursorStep(<<written,
                        EvCursor("read_back", 0, written.op, 0, reader, result,
                                 result.reader)>>)

\* buf_send_u16 / buf_send_i16 into a buffer and buf_recv_u16 / buf_recv_i16
\* from it
SendRecv ==
    /\ session = "Streaming"
    /\ \E call \in CodecCalls :
           LET buffer == IF call.op = "u16" THEN buf_send_u16(call.value)
                         ELSE buf_send_i16(call.value)
               cursor == BufferReader_new(buffer)
               value == IF call.op = "u16" THEN buf_recv_u16(buffer)
                        ELSE buf_recv_i16(buffer)
           IN  CursorStep(<<EvCursor("codec", 0, call.op, call.value, cursor,
                                     Ok(value), cursor)>>)

NextBuffer ==
    \/ NewReader
    \/ BufRead
    \/ NewWriter
    \/ BufWrite
    \/ BufReadBack
    \/ SendRecv

SpecBuffer == InitState /\ [][NextBuffer]_vars

(***************************************************************************)
(* Configuration (core/config.rs).  A string is the sequence of the codes  *)
(* of its ASCII characters; the environment maps the name of a variable to *)
(* its value, or to None.                                                  *)
(***************************************************************************)
Str ==
    [sub |-> <<115, 117, 98>>, pub |-> <<112, 117, 98>>,
     stdout |-> <<115, 116, 100, 111, 117, 116>>,
     http |-> <<104, 116, 116, 112>>,
     hook0 |-> <<104, 111, 111, 107, 48>>,
     http_scheme |-> <<104, 116, 116, 112, 58, 47, 47>>,
     https_scheme |-> <<104, 116, 116, 112, 115, 58, 47, 47>>]

\* s.trim().is_empty(): nothing but white space
trim_is_empty(s) == \A i \in 1..Len(s) : s[i] \in {9, 10, 11, 12, 13, 32}

is_ascii_alphanumeric(c) == c \in (48..57) \cup (65..90) \cup (97..122)

\* s.to_lowercase() of an ASCII string
to_lowercase(s) == [i \in 1..Len(s) |-> IF s[i] \in 65..90 THEN s[i] + 32 ELSE s[i]]

starts_with(s, prefix) ==
    Len(s) >= Len(prefix) /\ SubSeq(s, 1, Len(prefix)) = prefix

\* Uuid::parse_str(&s).ok() for the form of 32 hexadecimal digits
Uuid_parse_str(s) ==
    IF /\ Len(s) = 32
       /\ \A i \in 1..32 : s[i] \in (48..57) \cup (65..70) \cup (97..102)
    THEN Some(s)
    ELSE None

\* value.unwrap_or_else(|_| default)
unwrap_or(value, default) == IF value.some THEN value.data ELSE default

\* the match on event_sink in validate_and_create
event_sink_val(event_sink, http_endpoint_url, hook0_api_url, hook0_application_id, hook0_api_token) ==
    IF ~event_sink.some
    THEN Err("EVENT_SINK must be one of: 'http', 'hook0', or 'stdout'")
    ELSE LET service_lower == to_lowercase(event_sink.data)
         IN  IF service_lower = Str.http
             THEN IF ~http_endpoint_url.some \/ trim_is_empty(http_endpoint_url.data)
                  THEN Err("HTTP_ENDPOINT_URL is required when using 'http' event sink")
                  ELSE IF /\ ~starts_with(http_endpoint_url.data, Str.http_scheme)
                          /\ ~starts_with(http_endpoint_url.data, Str.https_scheme)
                  THEN Err("HTTP_ENDPOINT_URL must start with http:// or https://")
                  ELSE Ok("http")
             ELSE IF service_lower = Str.hook0
             THEN IF ~hook0_api_url.some \/ trim_is_empty(hook0_api_url.data)
                  THEN Err("HOOK0_API_URL is required when using 'hook0' event sink")
                  ELSE IF ~hook0_application_id.some
                  THEN Err("HOOK0_APPLICATION_ID is required when using 'hook0' event sink")
                  ELSE IF ~hook0_api_token.some \/ trim_is_empty(hook0_api_token.data)
                  THEN Err("HOOK0_API_TOKEN is required when using 'hook0' event sink")
                  ELSE IF /\ ~starts_with(hook0_api_url.data, Str.http_scheme)
                          /\ ~starts_with(hook0_api_url.data, Str.https_scheme)
                  THEN Err("HOOK0_API_URL must start with http:// or https://")
                  ELSE Ok("hook0")
             ELSE IF service_lower = Str.stdout
             THEN Ok("stdout")
             ELSE Err("EVENT_SINK must be one of: 'http', 'hook0', or 'stdout'")

validate_and_create(connection_string, publication_name, slot_name, event_sink, http_endpoint_url, hook0_api_url, hook0_application_id, hook0_api_token) ==
    IF trim_is_empty(connection_string)
    THEN Err("DATABASE_URL cannot be empty")
    ELSE IF trim_is_empty(publication_name)
    THEN Err("Publication name cannot be empty")
    ELSE IF trim_is_empty(slot_name)
    THEN Err("Slot name cannot be empty")
    ELSE IF ~\A i \in 1..Len(slot_name) :
                is_ascii_alphanumeric(slot_name[i]) \/ slot_name[i] = 95
    THEN Err("Slot name can only contain alphanumeric characters and underscores")
    ELSE IF Len(slot_name) > 63
    THEN Err("Slot name cannot be longer than 63 characters")
    ELSE Then(event_sink_val(event_sink, http_endpoint_url, hook0_api_url,
                             hook0_application_id, hook0_api_token),
              LAMBDA sink :
                Ok([connection_string |-> connection_string,
                    publication_name |-> publication_name,
                    slot_name |-> slot_name,
                    feedback_interval_secs |-> feedback_interval_secs,
                    event_sink |-> sink,
                    http_endpoint_url |-> http_endpoint_url,
                    hook0_api_url |-> hook0_api_url,
                    hook0_application_id |-> hook0_application_id,
                    hook0_api_token |-> hook0_api_token]))

\* ReplicationConfig::from_env on the environment env
from_env(env) ==
    IF ~env.DATABASE_URL.some
    THEN Err("Missing required DATABASE_URL environment variable")
    ELSE validate_and_create(
             env.DATABASE_URL.data,
             unwrap_or(env.PUB_NAME, Str.pub),
             unwrap_or(env.SLOT_NAME, Str.sub),
             env.EVENT_SINK,
             env.HTTP_ENDPOINT_URL,
             env.HOOK0_API_URL,
             IF env.HOOK0_APPLICATION_ID.some
             THEN Uuid_parse_str(env.HOOK0_APPLICATION_ID.data)
             ELSE None,
             env.HOOK0_API_TOKEN)

(***************************************************************************)
(* The configuration on its own: variables of the environment are set and  *)
(* removed, and from_env loads the configuration from what is set.  The    *)
(* last entry of the trace holds the environment.                          *)
(***************************************************************************)
\* the values a variable is set to
EnvValues ==
    [DATABASE_URL |-> {<<100, 98>>, <<32>>},
     SLOT_NAME |-> {<<115, 95, 49>>, <<97, 45, 98>>, [i \in 1..64 |-> 97]},
     PUB_NAME |-> {<<32>>},
     EVENT_SINK |-> {Str.stdout, <<72, 116, 116, 112>>, Str.hook0,
                     <<107, 97, 102, 107, 97>>},
     HTTP_ENDPOINT_URL |-> {Str.http_scheme \o <<104>>,
                            <<102, 116, 112, 58, 47, 47, 104>>},
     HOOK0_API_URL |-> {Str.https_scheme \o <<104>>},
     HOOK0_APPLICATION_ID |-> {[i \in 1..32 |-> 48], <<120>>},
     HOOK0_API_TOKEN |-> {<<116>>}]

EnvNames == DOMAIN EnvValues

\* the environment of a process started with none of the variables
EmptyEnv == [name \in EnvNames |-> None]

EvEnv(e, env, result) ==
    [e |-> e, id |-> 0, pos |-> 0, ok |-> IsOk(result), ack |-> "",
     frame |-> << >>, env |-> env, result |-> result]

\* the environment as the last step left it
Env == IF trace = << >> THEN EmptyEnv ELSE trace[1].env

EnvStep(e, env, result) ==
    /\ trace' = <<EvEnv(e, env, result)>>
    /\ UNCHANGED <<session, received_lsn, applied_lsn, relations,
                   last_feedback_time, envVars, sink_kind, pending,
                   sinkLocals, sinkState, recv_calls, legacy>>

\* env::set_var(name, value)
SetVar ==
    /\ session = "Streaming"
    /\ \E name \in EnvNames :
           \E value \in EnvValues[name] :
               EnvStep("set_var", [Env EXCEPT ![name] = Some(value)], Ok(0))

\* env::remove_var(name)
RemoveVar ==
    /\ session = "Streaming"
    /\ \E name \in EnvNames :
           /\ Env[name].some
           /\ EnvStep("remove_var", [Env EXCEPT ![name] = None], Ok(0))

\* ReplicationConfig::from_env()
FromEnv ==
    /\ session = "Streaming"
    /\ EnvStep("from_env", Env, from_env(Env))

NextConfig ==
    \/ SetVar
    \/ RemoveVar
    \/ FromEnv

SpecConfig == InitState /\ [][NextConfig]_vars

(***************************************************************************)
(* Reading the trace.                                                      *)
(***************************************************************************)
\* the positions of the entries of kind e
Indices(e) == {i \in 1..Len(trace) : trace[i].e = e}

\* the fields of a standby status update
WritePos(frame) == buf_recv_u64(Slice(frame, 1))

FlushPos(frame) == buf_recv_u64(Slice(frame, 9))

ApplyPos(frame) == buf_recv_u64(Slice(frame, 17))

FbTimestamp(frame) == buf_recv_i64(Slice(frame, 25))

\* the positions of the entries the step adds to the trace
Added == (Len(trace) + 1)..Len(trace')

\* entry j is the first feedback frame after entry i
NextFb(i, j) ==
    /\ j \in Indices("fb")
    /\ j > i
    /\ \A k \in (i + 1)..(j - 1) : trace[k].e # "fb"

\* entry j is the first get_copy_data call after entry i
NextRecv(i, j) ==
    /\ j \in Indices("recv")
    /\ j > i
    /\ \A k \in (i + 1)..(j - 1) : trace[k].e # "recv"

\* the number of feedback frames between entries i and j
FbBetween(i, j) == Cardinality({k \in (i + 1)..(j - 1) : trace[k].e = "fb"})

(***************************************************************************)
(* C1: applied_lsn <= received_lsn in every state of the session, and in   *)
(* every feedback frame the apply position is at most the write position.  *)
(***************************************************************************)
C1_AppliedAtMostReceived ==
    /\ applied_lsn <= received_lsn
    /\ \A i \in Indices("fb") :
           ApplyPos(trace[i].frame) <= WritePos(trace[i].frame)

\* a frame is being delivered beyond a position already applied
C1_Witness ==
    /\ session = "Sending"
    /\ applied_lsn > 0
    /\ received_lsn > applied_lsn

(***************************************************************************)
(* C2 as stated: applied_lsn changes only in a step in which send_event    *)
(* returns for an event whose delivery did not fail, whatever the sink.    *)
(***************************************************************************)
C2_AdvanceOnlyAfterDelivery ==
    [][applied_lsn' # applied_lsn =>
           \E i \in Added : trace'[i].e = "ret" /\ trace'[i].ack # "failed"]_vars

(***************************************************************************)
(* C2, amended: applied_lsn changes only in a step in which send_event     *)
(* returns Ok; with the stdout sink and the HTTP sink that is never for an *)
(* event whose delivery failed, with the Hook0 sink it can be.             *)
(***************************************************************************)
C2_AdvanceOnlyAfterOk ==
    [][applied_lsn' # applied_lsn =>
           \E i \in Added :
               /\ trace'[i].e = "ret"
               /\ trace'[i].ok
               /\ trace'[i].ack = "failed" => sink_kind = "hook0"]_vars

\* the Hook0 sink returned Ok for an event it did not deliver, and a
\* feedback frame reports the position of that event as applied
C2_Witness ==
    \E i \in Indices("ret") : \E j \in Indices("fb") :
        /\ trace[i].ok
        /\ trace[i].ack = "failed"
        /\ trace[i].pos > 0
        /\ NextFb(i, j)
        /\ ApplyPos(trace[j].frame) = trace[i].pos

(***************************************************************************)
(* C3: after send_event returned Ok for the message of a frame, the first  *)
(* feedback frame sent afterwards has an apply position >= the data_start  *)
(* of that frame.                                                          *)
(***************************************************************************)
C3_NextFeedbackCoversDelivered ==
    \A i \in Indices("ret") : \A j \in Indices("fb") :
        trace[i].ok /\ NextFb(i, j) =>
            ApplyPos(trace[j].frame) >= trace[i].pos

\* a delivery at a position above zero, with a feedback frame after it
C3_Witness ==
    \E i \in Indices("ret") : \E j \in Indices("fb") :
        trace[i].ok /\ trace[i].pos > 0 /\ NextFb(i, j)

(***************************************************************************)
(* C4: the ids of the chunks send_event is called for are, in order, the   *)
(* ids of the chunks received that hold an XLogData whose payload decodes; *)
(* no chunk is sent twice; and get_copy_data is not called between a call  *)
(* of send_event and its return.                                           *)
(***************************************************************************)
IsSend(ev) == ev.e = "send"

IsDecoded(ev) == ev.e = "recv" /\ ev.ok /\ ev.ack = "message"

\* the ids of the entries of the trace that satisfy Test, in order
IdsOf(Test(_)) ==
    LET entries == SelectSeq(trace, Test)
    IN  [i \in 1..Len(entries) |-> entries[i].id]

C4_SinkSeesWalOrder ==
    /\ IdsOf(IsSend) = IdsOf(IsDecoded)
    /\ \A i, j \in Indices("send") : i < j => trace[i].id < trace[j].id
    /\ \A i \in Indices("send") : \A j \in Indices("recv") :
           i < j => \E k \in Indices("ret") :
                        i < k /\ k < j /\ trace[k].id = trace[i].id

\* two events were handed to the sink
C4_Witness == Cardinality(Indices("send")) >= 2

(***************************************************************************)
(* C6: in the step in which send_event returns an error the session fails, *)
(* applied_lsn keeps its value and nothing else is added to the trace; the *)
(* handling of the frame before the call left applied_lsn alone; and a     *)
(* failed session does nothing more.                                       *)
(***************************************************************************)
C6_SinkErrorEndsSession ==
    [][/\ (\E i \in Added : trace'[i].e = "ret" /\ ~trace'[i].ok) =>
              /\ session' \in {"Failed", "Panicked"}
              /\ applied_lsn' = applied_lsn
              /\ Len(trace') = Len(trace) + 1
       /\ (\E i \in Added : trace'[i].e = "send") => applied_lsn' = applied_lsn
       /\ session \in {"Failed", "Panicked"} =>
              /\ session' = session
              /\ applied_lsn' = applied_lsn
              /\ trace' = trace]_vars

\* send_event returned an error after an earlier event had been applied
C6_Witness ==
    /\ session = "Failed"
    /\ applied_lsn > 0
    /\ trace[Len(trace)].e = "ret"
    /\ ~trace[Len(trace)].ok

(***************************************************************************)
(* C9: every feedback frame a step sends has 34 bytes: 'r', then           *)
(* received_lsn twice, then applied_lsn, as they are when the frame is     *)
(* sent, then the time in microseconds, then 0.                            *)
(***************************************************************************)
C9_FeedbackLayout ==
    [][\A i \in Added : trace'[i].e = "fb" =>
           LET frame == trace'[i].frame
           IN  /\ Len(frame) = 34
               /\ frame[1] = 114
               /\ WritePos(frame) = received_lsn
               /\ FlushPos(frame) = received_lsn
               /\ ApplyPos(frame) = applied_lsn'
               /\ FbTimestamp(frame) = now * 1000000
               /\ frame[34] = 0]_vars

\* a feedback frame sent at a time and a position other than zero
C9_Witness ==
    \E i \in Indices("fb") :
        /\ Len(trace[i].frame) = FEEDBACK_LEN
        /\ ApplyPos(trace[i].frame) > 0
        /\ FbTimestamp(trace[i].frame) > 0

(***************************************************************************)
(* C10 as stated: between the receipt of a keepalive that requests a reply *)
(* and the next call of get_copy_data exactly one feedback frame is sent.  *)
(***************************************************************************)
\* entry i is the receipt of a keepalive with reply_requested = 1
ReplyRequested(i) == trace[i].e = "recv" /\ trace[i].ack = "reply"

C10_ExactlyOneFeedback ==
    \A i, j \in Indices("recv") :
        ReplyRequested(i) /\ NextRecv(i, j) => FbBetween(i, j) = 1

(***************************************************************************)
(* C10, amended: the handler of a keepalive that requests a reply sends    *)
(* one feedback frame at once, or the session fails; before the next call  *)
(* of get_copy_data at most one more frame is sent: the periodic one,      *)
(* right before that call.                                                 *)
(***************************************************************************)
C10_OneReplyThenPeriodic ==
    \A i \in Indices("recv") : ReplyRequested(i) =>
        /\ \/ i < Len(trace) /\ trace[i + 1].e = "fb"
           \/ i = Len(trace) /\ session = "Failed"
        /\ \A j \in Indices("recv") : NextRecv(i, j) =>
               /\ FbBetween(i, j) \in {1, 2}
               /\ FbBetween(i, j) = 2 => trace[j - 1].e = "fb"

\* a reply and a periodic frame between the keepalive and the next receive
C10_Witness ==
    \E i, j \in Indices("recv") :
        ReplyRequested(i) /\ NextRecv(i, j) /\ FbBetween(i, j) = 2

(***************************************************************************)
(* C7: received_lsn and applied_lsn never decrease; update_lsn(l) and      *)
(* update_applied_lsn(l) set their watermark to the higher of its value    *)
(* and l when l > 0, leave it alone when l = 0, and leave the other        *)
(* watermark alone.                                                        *)
(***************************************************************************)
C7_WatermarksAreMaxima ==
    [][LET call == trace'[1]
           higher(current) == IF call.pos > current THEN call.pos ELSE current
       IN  /\ received_lsn' >= received_lsn
           /\ applied_lsn' >= applied_lsn
           /\ call.e = "update_lsn" =>
                  /\ received_lsn' = higher(received_lsn)
                  /\ applied_lsn' = applied_lsn
           /\ call.e = "update_applied_lsn" =>
                  /\ applied_lsn' = higher(applied_lsn)
                  /\ received_lsn' = received_lsn]_vars

\* update_applied_lsn was called with a position below applied_lsn
C7_Witness ==
    /\ trace # << >>
    /\ trace[1].e = "update_applied_lsn"
    /\ trace[1].pos > 0
    /\ trace[1].pos < applied_lsn

(***************************************************************************)
(* C8 as stated: when send_event has returned Ok for each of the four      *)
(* frames of the transaction, applied_lsn is the end_lsn of the Commit,    *)
(* 0x1040, and the feedback frame sent next has it as its apply position.  *)
(***************************************************************************)
\* send_event has returned Ok for every frame of the transaction
TxnDelivered ==
    Cardinality({i \in Indices("ret") : trace[i].ok}) = Len(TxnPayloads)

\* the apply position of the feedback frame the trace ends with is pos
EndsWithFeedback(pos) ==
    /\ trace[Len(trace)].e = "fb"
    /\ ApplyPos(trace[Len(trace)].frame) = pos

C8_AppliedIsCommitEnd ==
    TxnDelivered => applied_lsn = TxnEndLsn /\ EndsWithFeedback(TxnEndLsn)

(***************************************************************************)
(* C8, amended: when send_event has returned Ok for each of the four       *)
(* frames, applied_lsn is the highest data_start of the four frame         *)
(* headers and the feedback frame sent next has it as its apply position;  *)
(* that is 0x1040 when the header of the frame of the Commit has           *)
(* data_start 0x1040.  The end_lsn of the Commit message is not read.      *)
(***************************************************************************)
\* the data_start values of the headers of the frames received
HeaderStarts == {trace[i].pos : i \in Indices("recv")}

HighestHeaderStart == CHOOSE p \in HeaderStarts : \A q \in HeaderStarts : q <= p

\* the data_start of the header of the frame of the Commit
CommitHeaderStart ==
    trace[CHOOSE i \in Indices("recv") : trace[i].id = Len(TxnPayloads)].pos

C8_AppliedIsHighestDataStart ==
    TxnDelivered =>
        /\ applied_lsn = HighestHeaderStart
        /\ EndsWithFeedback(HighestHeaderStart)
        /\ CommitHeaderStart = TxnEndLsn => applied_lsn = TxnEndLsn

\* the transaction was delivered and the frame of its Commit had the
\* end_lsn of the Commit as data_start
C8_Witness ==
    /\ TxnDelivered
    /\ CommitHeaderStart = TxnEndLsn
    /\ applied_lsn = TxnEndLsn

(***************************************************************************)
(* C5: once the payload of the WAL frame of a chunk has failed to decode,  *)
(* the message of the chunk is not handed to the sink, get_copy_data is    *)
(* not called again, and no feedback frame is sent whose write, flush or   *)
(* apply position is at or beyond the data_start of the frame.             *)
(***************************************************************************)
C5_DecodeFailureAborts ==
    \A i \in Indices("fail") :
        /\ \A j \in Indices("send") : trace[j].id # trace[i].id
        /\ \A j \in Indices("recv") : j < i
        /\ \A j \in Indices("fb") :
               j > i => /\ WritePos(trace[j].frame) < trace[i].pos
                        /\ FlushPos(trace[j].frame) < trace[i].pos
                        /\ ApplyPos(trace[j].frame) < trace[i].pos

(***************************************************************************)
(* C11: the handling of a keepalive chunk changes neither received_lsn nor *)
(* applied_lsn; when the keepalive requests a reply, a feedback frame with *)
(* the unchanged positions follows the receipt, and the loop goes on.      *)
(***************************************************************************)
\* the step is a loop iteration whose get_copy_data returned a keepalive;
\* i is the position of the receipt in the trace
KeepaliveReceived(i) ==
    /\ recv_calls' = recv_calls + 1
    /\ i \in Added
    /\ trace'[i].e = "recv"
    /\ trace'[i].ok
    /\ Len(trace'[i].frame) >= KEEPALIVE_LEN
    /\ At(trace'[i].frame, 0) = Ch.k

C11_KeepaliveKeepsWatermarks ==
    [][\A i \in Added : KeepaliveReceived(i) =>
           /\ received_lsn' = received_lsn
           /\ applied_lsn' = applied_lsn
           /\ trace'[i].ack = "reply" =>
                  /\ session' = "Streaming"
                  /\ i + 2 = Len(trace')
                  /\ trace'[i + 1].e = "fb"
                  /\ trace'[i + 2].e = "flush"
                  /\ WritePos(trace'[i + 1].frame) = received_lsn
                  /\ FlushPos(trace'[i + 1].frame) = received_lsn
                  /\ ApplyPos(trace'[i + 1].frame) = applied_lsn]_vars

(***************************************************************************)
(* C12: the time between two consecutive feedback frames never exceeds     *)
(* feedback_interval_secs, whatever the session does in between: waiting   *)
(* in get_copy_data, or inside send_event between two attempts.            *)
(***************************************************************************)
\* entry i is a feedback frame the trace holds with its timestamp
Timestamped(i) == trace[i].e = "fb" /\ Len(trace[i].frame) >= FEEDBACK_LEN - 1

C12_FeedbackEveryInterval ==
    \A i, j \in Indices("fb") :
        NextFb(i, j) /\ Timestamped(i) /\ Timestamped(j) =>
            FbTimestamp(trace[j].frame) - FbTimestamp(trace[i].frame)
                <= feedback_interval_secs * MICROS_PER_SEC

(***************************************************************************)
(* C13: the graceful shutdown sends one final feedback frame with the      *)
(* current received_lsn and applied_lsn, then flushes the connection, then *)
(* the session is Closed; from the shutdown check that saw the signal to   *)
(* Closed no chunk is received and no message is handed to the sink.       *)
(***************************************************************************)
\* the step ends the session by a graceful shutdown
Closes == session # "Closed" /\ session' = "Closed"

\* what the trace gains before the shutdown check sees the signal: nothing
\* at the top of the loop; the return of send_event and the feedback frame
\* of process_wal_message after a WAL message
BeforeDraining ==
    IF session = "Sending"
    THEN /\ Len(trace') >= Len(trace) + 2
         /\ trace'[Len(trace) + 1].e = "ret"
         /\ trace'[Len(trace) + 2].e = "fb"
    ELSE TRUE

\* the positions of the entries the shutdown itself adds to the trace
Draining ==
    {i \in Added : i > Len(trace) + (IF session = "Sending" THEN 2 ELSE 0)}

SeesSignalAtTop == session = "Streaming" /\ shutdown_signal /\ session' # session

C14_ShutdownFailureIsLogged ==
    [][/\ SeesSignalAtTop =>
              /\ session' = "Closed"
              /\ ~conn_ok => Len(trace') = Len(trace)
       /\ session = "Sending" /\ Len(trace') >= Len(trace) + 3 =>
              session' = "Closed"]_vars

\* a session closed although the connection was lost before the final
\* feedback
C14_Witness ==
    /\ session = "Closed"
    /\ ~conn_ok
    /\ \A i \in Indices("flush") : i < Len(trace)

(***************************************************************************)
(* C15: the session never resets the shutdown flag; the flag is read at    *)
(* the top of every iteration and after every WAL message processed with   *)
(* success, and the check that sees it set ends the loop.  Once the flag   *)
(* is set, get_copy_data is not called again, and at most one more message *)
(* is handed to the sink: the one of the chunk that the call of            *)
(* get_copy_data in progress returns.                                      *)
(***************************************************************************)
\* the step hands a message to the sink
HandsToSink == \E i \in Added : trace'[i].e = "send"

C15_SignalEndsLoop ==
    [][shutdown_signal =>
         /\ shutdown_signal'
         /\ session # "Receiving" => session' # "Receiving"
         /\ session = "Streaming" /\ session' # session => session' = "Closed"
         /\ session = "Sending" /\ session' # session =>
                session' \in {"Closed", "Failed", "Panicked"}
         /\ session = "Sending" /\ session' # session
               /\ (\E i \in Added : trace'[i].e = "ret" /\ trace'[i].ok)
               /\ conn_ok => session' = "Closed"
         /\ HandsToSink => session = "Receiving" /\ session' = "Sending"]_vars

\* the signal came while the session was inside get_copy_data or inside
\* send_event; the message was delivered, and the check after it closed the
\* session without another call of get_copy_data
C15_Witness ==
    /\ session = "Closed"
    /\ shutdown_signal
    /\ recv_calls < MaxRecv
    /\ \E i \in Indices("ret") : trace[i].ok /\ trace[i].id = recv_calls

(***************************************************************************)
(* C16: once the shutdown flag is set while the session is streaming, the  *)
(* session eventually ends (Closed, Failed or Panicked), also when the     *)
(* server sends no chunk after the flag was set.  Inside get_copy_data the *)
(* session does not run: the call returns when the server has sent a chunk *)
(* or the connection has failed.  A session that ends without the server   *)
(* must be out of get_copy_data before the clock has advanced by a second: *)
(* with the flag set, no second passes with the session inside the call    *)
(* before and after.                                                       *)
(***************************************************************************)
\* the session is inside the blocking call of get_copy_data
WaitsForServer == session = "Receiving"

C16_SignalLeavesStreaming ==
    [][shutdown_signal /\ WaitsForServer /\ now' > now => session' # "Receiving"]_vars

(***************************************************************************)
(* C17.  START_REPLICATION is issued only after IDENTIFY_SYSTEM returned a *)
(* row and the wal_level, slot and publication checks have passed, in that *)
(* order; a command that fails ends the session Failed and no later        *)
(* command is executed.                                                    *)
(***************************************************************************)
Issued(command) == {i \in Indices("exec") : trace[i].ack = command}

CopyBoth(i) ==
    /\ ~trace[i].result.null
    /\ trace[i].result.status = "PGRES_COPY_BOTH"

RowChange == {"Insert", "Update", "Delete"}

C19_RelationAnnounced ==
    session = "Sending" /\ pending.kind \in RowChange =>
        pending.relation_id \in DOMAIN relations

(***************************************************************************)
(* C20.  A tuple whose declared column count differs from the column count *)
(* of the RelationInfo cached for its relation does not decode: send_event *)
(* is never called with it.                                                *)
(***************************************************************************)
C20_ColumnCountMatches ==
    /\ session = "Sending"
    /\ pending.kind = "Insert"
    /\ pending.relation_id \in DOMAIN relations
    => pending.tuple_data.column_count =
           relations[pending.relation_id].column_count

(***************************************************************************)
(* C21.  A Relation message puts its RelationInfo into the relation cache  *)
(* under its oid, in the place of the entry that was there; the entries of *)
(* the other oids stay as they were, and the lookup of an oid no Relation  *)
(* message has announced returns None.                                     *)
(***************************************************************************)
\* the step decodes a Relation message and stores it
StoresRelation ==
    /\ session = "Receiving"
    /\ session' = "Sending"
    /\ pending'.kind = "Relation"

C21_CacheHoldsLatestRelation ==
    [][/\ Indices("send") = {} =>
            \A oid \in RelationOids : get_relation(relations, oid) = NoRelation
       /\ StoresRelation =>
            \A oid \in RelationOids :
                get_relation(relations', oid) =
                    IF oid = pending'.relation.oid
                    THEN SomeRelation(pending'.relation)
                    ELSE get_relation(relations, oid)
       /\ ~StoresRelation => relations' = relations]_vars

\* p.t was announced twice, the second time with MaxCols columns, and the
\* events table never
C21_Witness ==
    /\ Cardinality(Indices("send")) = 2
    /\ get_relation(relations, TableOid).some
    /\ get_relation(relations, TableOid).relation.column_count = MaxCols
    /\ Len(get_relation(relations, TableOid).relation.columns) = MaxCols
    /\ ~get_relation(relations, EventsOid).some

(***************************************************************************)
(* C22.  A call of send_event makes at most max_retries attempts, and the  *)
(* delay it sleeps after its k-th failed attempt is base_delay_ms doubled  *)
(* k - 1 times and capped at max_delay_ms: 1 s, 2 s, 4 s, 8 s, whatever    *)
(* the failure was.                                                        *)
(***************************************************************************)
BackoffDelay(k) == Min(base_delay_ms * 2 ^ (k - 1), max_delay_ms)

C22_BackoffSchedule ==
    /\ attempt < max_retries
    /\ Len(slept_ms) = attempt
    /\ \A k \in 1..Len(slept_ms) : slept_ms[k] = BackoffDelay(k)

(***************************************************************************)
(* C23.  A permanent failure is not retried: when the HTTP endpoint        *)
(* answers with a client error other than 429, or the webhook destination  *)
(* with InvalidEventId or InvalidPayload, send_event returns an error at   *)
(* once and the session ends Failed.                                       *)
(***************************************************************************)
PermanentFailure ==
    \/ HttpAttempt("4xx")
    \/ Hook0Attempt("InvalidEventId")
    \/ Hook0Attempt("InvalidPayload")

C23_PermanentNotRetried ==
    [][PermanentFailure => sink_pc' = "idle" /\ session' = "Failed"]_vars

(***************************************************************************)
(* C24.  When the last attempt send_event may make fails with a retryable  *)
(* error of the destination (a server error of the HTTP endpoint,          *)
(* InternalServerError or RateLimitExceeded of the webhook destination),   *)
(* send_event returns an error and the session ends Failed: the sink does  *)
(* not report success and does not panic.                                  *)
(***************************************************************************)
LastAttemptFails ==
    /\ attempt = max_retries - 1
    /\ \/ HttpAttempt("5xx")
       \/ Hook0Attempt("InternalServerError")
       \/ Hook0Attempt("RateLimitExceeded")

C24_ExhaustionIsSinkError ==
    [][LastAttemptFails => sink_pc' = "idle" /\ session' = "Failed"]_vars

(***************************************************************************)
(* C25.  When the destination answers EventTypeDoesNotExist for a row of   *)
(* event type t at time T, send_event returns Ok for that row.  A later    *)
(* row of type t that arrives before T + 5 minutes is skipped: send_event  *)
(* returns Ok without an attempt.  A row of type t that arrives at or      *)
(* after T + 5 minutes is attempted against the destination again.         *)
(***************************************************************************)
\* send_event returns Ok in this step
ReturnsOk == \E i \in Added : trace'[i].e = "ret" /\ trace'[i].ok

\* send_event is called with a row of the events table
RowArrives ==
    /\ Hook0SendEvent("event")
    /\ pending.kind = "Insert"

C25_UnknownTypeSuppressed ==
    [][/\ Hook0Attempt("EventTypeDoesNotExist") =>
            /\ ReturnsOk
            /\ PendingEventType \in DOMAIN unknown_event_types'
            /\ unknown_event_types'[PendingEventType] = now
            /\ \A t \in DOMAIN unknown_event_types' \ {PendingEventType} :
                   /\ t \in DOMAIN unknown_event_types
                   /\ unknown_event_types'[t] = unknown_event_types[t]
       /\ RowArrives /\ PendingEventType \in DOMAIN unknown_event_types =>
            IF now < unknown_event_types[PendingEventType] + SuppressSecs
            THEN /\ ReturnsOk
                 /\ sink_pc' = "idle"
                 /\ unknown_event_types' = unknown_event_types
            ELSE /\ sink_pc' = "loop"
                 /\ session' = "Sending"
       /\ RowArrives /\ PendingEventType \notin DOMAIN unknown_event_types =>
            sink_pc' = "loop"]_vars

\* a row of the type that was unknown was skipped, and a later one, five
\* minutes or more after the answer, is being attempted
C25_Witness ==
    /\ sink_kind = "hook0"
    /\ sink_pc = "loop"
    /\ now >= SuppressSecs
    /\ \E i, j \in Indices("ret") :
        /\ i < j
        /\ trace[i].ack = "failed" /\ trace[i].ok
        /\ trace[j].ack = "skipped" /\ trace[j].ok
    /\ unknown_event_types = EmptyMap

(***************************************************************************)
(* C26.  The Hook0 sink skips a decoded row that is not a row of the       *)
(* events table (a column is missing, or a value is not of the kind        *)
(* required): send_event returns Ok without an attempt, never an error or  *)
(* a panic.                                                                *)
(***************************************************************************)
\* send_event is called with a message that decodes to a row parse_event_row
\* rejects
RowDoesNotMatch ==
    \E class \in RowClasses :
        /\ Hook0SendEvent(class)
        /\ LET decoded_event == decode(decoder_relations, pending)
           IN  /\ IsOk(decoded_event)
               /\ decoded_event.val.some
               /\ IsErr(parse_event_row(decoded_event.val.row, class))

C26_MismatchIsSkipped ==
    [][RowDoesNotMatch => ReturnsOk /\ sink_pc' = "idle"]_vars

(***************************************************************************)
(* C27.  For an Insert or Update of a relation announced with n columns,   *)
(* the decoder of the Hook0 sink produces a row that maps the name of      *)
(* column i to the text of tuple column i, for every column i; a column of *)
(* a type the decoder does not know is kept, with the text as it came.     *)
(***************************************************************************)
\* send_event of the Hook0 sink is about to decode a row of a relation that
\* was announced with as many columns as the row has
DecodesRow ==
    /\ InSendEvent("hook0", "entry")
    /\ pending.kind \in {"Insert", "Update"}
    /\ pending.relation_id \in DOMAIN relations

PendingTuple ==
    IF pending.kind = "Insert" THEN pending.tuple_data ELSE pending.new_tuple_data

C27_RowMapsNamesToValues ==
    DecodesRow /\ Len(PendingTuple.columns) = Len(relations[pending.relation_id].columns) =>
        LET columns == relations[pending.relation_id].columns
            decoded_event == decode(decoder_relations, pending)
        IN  /\ IsOk(decoded_event)
            /\ decoded_event.val.some
            /\ \A i \in 1..Len(columns) :
                /\ columns[i].column_name \in DOMAIN decoded_event.val.row
                /\ decoded_event.val.row[columns[i].column_name].data =
                       PendingTuple.columns[i].data

(***************************************************************************)
(* C28.  An Insert payload 'I' | xid | relation_id | 'N' | tuple decodes   *)
(* to a streamed Insert with that xid and that relation_id, and a payload  *)
(* 'I' | relation_id | 'N' | tuple to an Insert that is not streamed, has  *)
(* no xid and has that relation_id, whatever the xid and the relation_id.  *)
(***************************************************************************)
\* the last call of the parser was for a payload of the kind
ParsedKind(kind) ==
    /\ trace # << >>
    /\ trace[1].e = "parse"
    /\ trace[1].in.kind = kind

\* the xid and the streaming flag of the message are those of the payload
StreamingAsBuilt(in, message) ==
    /\ message.is_stream = in.streamed
    /\ message.xid = IF in.streamed THEN SomeXid(in.xid) ELSE NoXid

C28_InsertDecodes ==
    ParsedKind("Insert") =>
        LET in == trace[1].in
            result == trace[1].result
        IN  /\ IsOk(result)
            /\ result.val.kind = "Insert"
            /\ StreamingAsBuilt(in, result.val)
            /\ result.val.relation_id = in.relation_id
            /\ result.val.tuple_data = TupleOf(in.new)


(***************************************************************************)
(* C29.  A Truncate payload 'T' | n | flags | n relation ids decodes to a  *)
(* Truncate that is not streamed, with exactly those n ids and those       *)
(* flags, and a payload 'T' | xid | n | flags | n relation ids to a        *)
(* streamed Truncate with that xid, those n ids and those flags, for       *)
(* every n >= 1, flags byte and relation ids.                              *)
(***************************************************************************)
C29_TruncateDecodes ==
    ParsedKind("Truncate") =>
        LET in == trace[1].in
            result == trace[1].result
        IN  /\ IsOk(result)
            /\ result.val.kind = "Truncate"
            /\ StreamingAsBuilt(in, result.val)
            /\ result.val.relation_ids = in.relation_ids
            /\ result.val.flags = in.flags


(***************************************************************************)
(* C30.  An Update payload decodes by its marker sequence: 'N' alone gives *)
(* the new tuple and no old image; 'K' then 'N' gives the key kind 'K',    *)
(* the key image as the old tuple and the new tuple; 'O' then 'N' gives    *)
(* the key kind 'O', the old row as the old tuple and the new tuple.  The  *)
(* 'N' marker is looked for at the byte that follows the bytes the old     *)
(* tuple consumed.                                                         *)
(***************************************************************************)
\* the offset of the first byte after the relation id of the payload
AfterRelationId(in) == IF in.streamed THEN 9 ELSE 5

\* the old image of the message is the one the payload carries
OldImageAsBuilt(in, message) ==
    IF in.marker = Ch.N
    THEN /\ message.key_type = NoKey
         /\ message.old_tuple_data = NoTuple
    ELSE /\ message.key_type = [some |-> TRUE, key |-> in.marker]
         /\ message.old_tuple_data = [some |-> TRUE, tuple |-> TupleOf(in.old)]

\* the byte after the bytes consumed by the old tuple is the 'N' marker
NewMarkerFollowsOld(in, buffer, message) ==
    in.marker # Ch.N =>
        At(buffer, AfterRelationId(in) + 1
                       + message.old_tuple_data.tuple.processed_length) = Ch.N

C30_UpdateDecodesByMarkers ==
    ParsedKind("Update") =>
        LET in == trace[1].in
            result == trace[1].result
        IN  /\ IsOk(result)
            /\ result.val.kind = "Update"
            /\ result.val.relation_id = in.relation_id
            /\ OldImageAsBuilt(in, result.val)
            /\ NewMarkerFollowsOld(in, trace[1].buffer, result.val)
            /\ result.val.new_tuple_data = TupleOf(in.new)

\* an update that carries a key image of a null and a text column and a new
\* row of two columns has been parsed
C30_Witness ==
    /\ ParsedKind("Update")
    /\ trace[1].in.marker = Ch.K
    /\ trace[1].in.old = <<0, 49>>
    /\ Len(trace[1].in.new) = 2
    /\ trace[1].ok
    /\ pending.kind = "Update"
    /\ pending.old_tuple_data.tuple.processed_length = 9


(***************************************************************************)
(* C31.  A Delete that decodes has the key kind 'K' or 'O', and a Delete   *)
(* payload whose tuple marker is another byte is rejected with an error,   *)
(* streamed or not.                                                        *)
(***************************************************************************)
C31_DeleteKeyKind ==
    ParsedKind("Delete") =>
        LET in == trace[1].in
            result == trace[1].result
        IN  /\ IsOk(result) => result.val.key_type \in {Ch.K, Ch.O}
            /\ in.marker \notin {Ch.K, Ch.O} => IsErr(result)


(***************************************************************************)
(* C32.  A read of a BufferReader and a write of a BufferWriter either     *)
(* succeeds and moves the cursor on by the bytes consumed or produced, or  *)
(* returns an error and leaves the cursor where it was before the call.    *)
(***************************************************************************)
\* the bytes of a fixed-width integer
Width(op) ==
    CASE op = "u8" -> 1
      [] op \in {"u16", "i16"} -> 2
      [] op \in {"u32", "i32"} -> 4
      [] op \in {"u64", "i64"} -> 8

\* the bytes the successful call ev consumed or produced
Moved(ev) ==
    CASE ev.op = "null_terminated_string" -> Len(ev.result.val) + 1
      [] ev.op \in {"length_prefixed_string", "length_prefixed_bytes"} ->
             4 + Len(IF ev.e = "buf_write" THEN ev.value ELSE ev.result.val)
      [] ev.op = "bytes" -> Len(ev.value)
      [] OTHER -> Width(ev.op)

C32_CursorMovesOrStays ==
    CursorOf({"buf_read", "buf_write", "read_back"}) =>
        LET ev == Last(trace)
        IN  IF IsOk(ev.result)
            THEN ev.after.position = ev.before.position + Moved(ev)
            ELSE /\ IsErr(ev.result)
                 /\ ev.after.position = ev.before.position


(***************************************************************************)
(* C33.  A length-prefixed string of length 0 decodes to the empty string, *)
(* one of a negative length gives a parse error, and one of a length above *)
(* the cap gives a parse error even when the buffer holds that many bytes. *)
(***************************************************************************)
\* the cap on the length of a length-prefixed string, as configured for the
\* buffers of ReadBuffers (1 MiB when nothing is configured)
max_string_length == 4

\* the last call was read_length_prefixed_string on a reader with the four
\* bytes of a length in front of it
ReadsPrefixedString ==
    /\ CursorOf({"buf_read"})
    /\ Last(trace).op = "length_prefixed_string"
    /\ has_bytes(Last(trace).before, 4)

\* the length the string declares
DeclaredLength == buf_recv_i32(Rest(Last(trace).before))

C33_PrefixedStringLengths ==
    ReadsPrefixedString =>
        LET result == Last(trace).result
        IN  /\ DeclaredLength = 0 => IsOk(result) /\ result.val = << >>
            /\ DeclaredLength < 0 => IsErr(result)
            /\ DeclaredLength > max_string_length => IsErr(result)


(***************************************************************************)
(* C34.  A value of u8, u16, u32, u64, i16, i32 or i64 that is written and *)
(* then read from the same position comes back unchanged, and the writer   *)
(* and the reader each move on by the width of the type.  BufferWriter has *)
(* no write for u16 and i16: for these the value goes through buf_send and *)
(* buf_recv.                                                               *)
(***************************************************************************)
\* a value written by a BufferWriter has been read by a BufferReader
ReadBack == Len(trace) = 2 /\ trace[2].e = "read_back"

\* a value has gone through buf_send and buf_recv
SentAndReceived == CursorOf({"codec"})

LoadsDefaults ==
    /\ trace # << >>
    /\ trace[1].e = "from_env"
    /\ trace[1].env.DATABASE_URL.some
    /\ ~trim_is_empty(trace[1].env.DATABASE_URL.data)
    /\ ~trace[1].env.EVENT_SINK.some
    /\ ~trace[1].env.SLOT_NAME.some
    /\ ~trace[1].env.PUB_NAME.some

C35_DefaultsLoad ==
    LoadsDefaults =>
        /\ IsOk(trace[1].result)
        /\ trace[1].result.val.slot_name = Str.sub
        /\ trace[1].result.val.publication_name = Str.pub
        /\ trace[1].result.val.event_sink = "stdout"


(***************************************************************************)
(* C36.  A received chunk that is empty, or whose first byte is neither    *)
(* 'k' nor 'w', changes nothing: the two positions and the relation cache  *)
(* keep their values, no sink call and no feedback frame come of it, and   *)
(* the loop goes on to its next iteration.                                 *)
(***************************************************************************)
IgnoredChunks == {<< >>, UnknownChunk}

\* get_copy_data returns the chunk and the loop handles it
Receives(chunk) == conn_ok /\ LoopIterate(Some(chunk))

C36_IgnoredChunkChangesNothing ==
    [][\A chunk \in IgnoredChunks :
           Receives(chunk) =>
               /\ received_lsn' = received_lsn
               /\ applied_lsn' = applied_lsn
               /\ relations' = relations
               /\ last_feedback_time' = last_feedback_time
               /\ trace' = Append(Compact(trace),
                                  EvRecv(recv_calls + 1, TRUE, chunk))
               /\ sink_pc' = sink_pc
               /\ session' = "Streaming"]_vars

\* a chunk with the tag 'X' has been received after an event was delivered
C36_Witness ==
    /\ trace # << >>
    /\ trace[Len(trace)].e = "recv"
    /\ trace[Len(trace)].ok
    /\ trace[Len(trace)].frame = UnknownChunk
    /\ session = "Streaming"
    /\ received_lsn > 0
    /\ applied_lsn > 0


(***************************************************************************)
(* C37: whatever the bytes and the length of the buffer, the decoder       *)
(* returns a message or an error: no length assertion of the big-endian    *)
(* readers fails and no index is out of range, for payloads that are cut   *)
(* short too.                                                              *)
(***************************************************************************)
C37_DecoderNeverPanics ==
    (trace # << >> /\ trace[1].e = "parse") => ~IsPanic(trace[1].result)


(***************************************************************************)
(* C38: a Text column whose declared length is negative, or larger than    *)
(* the bytes that remain in the tuple, makes the decode return an error;   *)
(* a decoded Text column has a length >= 0 and carries exactly that many   *)
(* bytes of data.                                                          *)
(***************************************************************************)
\* the bytes of the UTF-8 encoding of a string
RECURSIVE Utf8Len(_, _)
Utf8Len(string, i) ==
    IF i > Len(string) THEN 0
    ELSE (IF string[i] < 128 THEN 1 ELSE IF string[i] < 2048 THEN 2 ELSE 3)
         + Utf8Len(string, i + 1)

TextColumnSound(column) ==
    column.data_type = Ch.t =>
        /\ column.length >= 0
        /\ Utf8Len(column.data, 1) = column.length

C38_TextLengthChecked ==
    ParsedKind("Text") =>
        LET in == trace[1].in
            result == trace[1].result
        IN  /\ (in.length < 0 \/ in.length > Len(in.data)) => IsErr(result)
            /\ IsOk(result) =>
                 \A i \in 1..Len(result.val.tuple_data.columns) :
                     TextColumnSound(result.val.tuple_data.columns[i])


(***************************************************************************)
(* C39: every feedback frame the session sends (periodic, reply to a       *)
(* keepalive, after a WAL frame, final) is sent while received_lsn =       *)
(* applied_lsn: its write and flush positions equal its apply position,    *)
(* the position of the last event for which send_event returned success.   *)
(***************************************************************************)
C39_FeedbackAtAppliedPosition ==
    \A i \in Indices("fb") :
        /\ WritePos(trace[i].frame) = ApplyPos(trace[i].frame)
        /\ FlushPos(trace[i].frame) = ApplyPos(trace[i].frame)

\* a feedback frame sent after an event was delivered, and a later one
C39_Witness ==
    \E i, j \in Indices("fb") :
        /\ i < j
        /\ WritePos(trace[i].frame) > 0
        /\ ApplyPos(trace[j].frame) = WritePos(trace[j].frame)
        /\ received_lsn = applied_lsn


(***************************************************************************)
(* C40: at the top of an iteration a periodic feedback frame is sent, and  *)
(* the feedback timer is reset, exactly when the time since the last mark  *)
(* is >= feedback_interval: a frame is sent when exactly the interval has  *)
(* elapsed.                                                                *)
(***************************************************************************)
\* the step sends a feedback frame
SendsFeedback == \E i \in Added : trace'[i].e = "fb"

since_last_feedback == now - last_feedback_time

C40_PeriodicFeedbackAtInterval ==
    [][(LoopEnter /\ conn_ok) =>
           /\ SendsFeedback <=> since_last_feedback >= feedback_interval_secs
           /\ last_feedback_time' = IF SendsFeedback THEN now
                                    ELSE last_feedback_time]_vars

====
